---- MODULE Spec2Model ----
(***************************************************************************)
(* Model of the hash-consed symbolic kernel (symbolic_core):               *)
(*   memory/allocator.py   MemoryPool                                      *)
(*   kernel/sectors.py     SectorManager                                   *)
(*   hashing/*.py          compute_signature, Canonizer, holographic_hash  *)
(*   kernel/strategies.py  NormalizationStrategy                           *)
(*   kernel/universe.py    Universe                                        *)
(*   ds/hamt.py            HAMT                                            *)
(*                                                                         *)
(* Identifiers.  A 512-bit id is the digest of (op, payload, child ids).   *)
(* Under the collision-freedom assumption an id is modelled as the record  *)
(* [op, pl, ch] it is the digest of; get_op is the field op (the Meta      *)
(* lane).  A Python int that is data and not an id (a scalar value, a HAMT *)
(* bitmap, the bytes of a blob) is the record Raw(n), so that every cell   *)
(* of an args tuple has one shape.                                         *)
(***************************************************************************)
EXTENDS Integers, Sequences, FiniteSets, TLC

VARIABLES
    lookup,       \* Universe._lookup: id -> physical index
    blob_lookup,  \* Universe._blob_lookup: bytes -> physical index
    sectors,      \* SectorManager._sectors: op -> MemoryPool
    last,         \* the last call made through the sequential interface
    calls,        \* number of interface calls made so far
    uretain,      \* explicit retain calls on each id not yet undone by a delete
    deletes,      \* number of delete calls made so far
    hmaps,        \* HAMT versions built so far, each with its abstract map
    hhash,        \* holographic_hash of each key id used by the HAMT runs
    queues,       \* queue versions built so far, each with the items it holds
    pc,           \* concurrent runs: position of each thread in its call
    job,          \* concurrent runs: the call each thread is making
    loc,          \* concurrent runs: locals of each thread
    lock,         \* Universe._lock: owner and reentrance depth
    pool_locks,   \* MemoryPool._lock of each sector: owner and reentrance depth
    done          \* concurrent runs: calls completed, with their results

vars == <<lookup, blob_lookup, sectors, last, calls, uretain, deletes, hmaps, hhash,
          queues, pc, job, loc, lock, pool_locks, done>>

univVars == <<lookup, blob_lookup, sectors>>

-----------------------------------------------------------------------------
(* Bounds of the model *)

\* slots per page of every sector (sectors.py sets 1024..65536)
PageSize == 2
\* interface calls per sequential run
MaxCalls == 3
\* longest args tuple offered to intern
MaxArgs == 3
\* scalar payloads offered to intern_val: -MaxNeg..MaxVal
MaxNeg == 1
MaxVal == 2
\* nodes the sequential runs keep in lookup
MaxLive == 7
\* symbol names offered to Node.symbol: 1..MaxNames
MaxNames == 2

-----------------------------------------------------------------------------
(* opcodes.py *)

OP_SCALAR == 1
OP_BLOB   == 2
OP_CHUNK  == 3
OP_SYMBOL == 16
OP_ADD    == 17
OP_MUL    == 18
OP_POW    == 19
OP_EXP    == 20
OP_CONS   == 32
OP_QUEUE  == 33
OP_HAMT   == 34
OP_KV     == 35
OP_TENSOR == 64
OP_DUAL   == 65

\* TRAITS_REGISTRY / get_traits: the trait set of an operator
get_traits(op_code) ==
    CASE op_code = OP_ADD    -> {"COMMUTATIVE", "ASSOCIATIVE", "IDENTITY_ZERO"}
      [] op_code = OP_MUL    -> {"COMMUTATIVE", "ASSOCIATIVE", "IDENTITY_ONE"}
      [] op_code = OP_TENSOR -> {"ASSOCIATIVE", "IDENTITY_ONE"}
      [] op_code = OP_DUAL   -> {"INVOLUTIVE"}
      [] OTHER               -> {}

-----------------------------------------------------------------------------
(* Identifiers: hashing/encoder.py, hashing/invariants.py *)

\* a Python int held in an args tuple as data
Raw(n) == [op |-> 0, pl |-> n, ch |-> <<>>]

\* the cleared content of a slot (None)
NoneData == <<[op |-> -1, pl |-> 0, ch |-> <<>>]>>

\* the id returned with an error
NullId == [op |-> -2, pl |-> 0, ch |-> <<>>]

\* compute_signature: the digest covers the operator, the payload of a
\* HAMT / blob / scalar, and the child ids in the order given
compute_signature(op_code, children_ids, extra_payload) ==
    [op |-> op_code,
     pl |-> IF op_code \in {OP_HAMT, OP_BLOB, OP_SCALAR} THEN extra_payload ELSE 0,
     ch |-> children_ids]

compute_scalar_signature(value) == compute_signature(OP_SCALAR, <<>>, value)

get_op(uid) == uid.op

RECURSIVE IdCmp(_, _)
RECURSIVE SeqCmp(_, _, _)
\* numeric comparison of two ids (-1, 0, 1): a fixed total order standing
\* for the order of the 512-bit integers
IdCmp(a, b) ==
    IF a.op # b.op THEN (IF a.op < b.op THEN -1 ELSE 1)
    ELSE IF a.pl # b.pl THEN (IF a.pl < b.pl THEN -1 ELSE 1)
    ELSE IF Len(a.ch) # Len(b.ch) THEN (IF Len(a.ch) < Len(b.ch) THEN -1 ELSE 1)
    ELSE SeqCmp(a.ch, b.ch, 1)

SeqCmp(s, t, i) ==
    IF i > Len(s) THEN 0
    ELSE LET c == IdCmp(s[i], t[i]) IN IF c # 0 THEN c ELSE SeqCmp(s, t, i + 1)

IdLess(a, b) == IdCmp(a, b) < 0

RECURSIVE InsertSorted(_, _)
InsertSorted(s, x) ==
    IF s = <<>> THEN <<x>>
    ELSE IF IdLess(x, Head(s)) THEN <<x>> \o s
    ELSE <<Head(s)>> \o InsertSorted(Tail(s), x)

RECURSIVE Sorted(_)
\* sorted(args): ascending, stable
Sorted(s) == IF s = <<>> THEN <<>> ELSE InsertSorted(Sorted(SubSeq(s, 1, Len(s) - 1)), s[Len(s)])

\* faulty variant of sort_args: the args are left in call order
sort_args_unsorted(op_code, args) == args

\* faulty variant of sort_args: the args of every operator are sorted
sort_args_of_every_operator(op_code, args) == Sorted(args)

\* Canonizer.sort_args
sort_args(op_code, args) ==
    IF "COMMUTATIVE" \in get_traits(op_code) THEN Sorted(args) ELSE args

-----------------------------------------------------------------------------
(* memory/allocator.py: MemoryPool.  Index i of the Python lists is        *)
(* position i + 1 of the sequences.                                        *)

Max(a, b) == IF a > b THEN a ELSE b

RECURSIVE Range(_, _)
\* list(range(a, b))
Range(a, b) == IF a >= b THEN <<>> ELSE <<a>> \o Range(a + 1, b)

RECURSIVE Repeat(_, _)
Repeat(x, n) == IF n <= 0 THEN <<>> ELSE <<x>> \o Repeat(x, n - 1)

\* MemoryPool.__init__
NewPool(page_size) ==
    [data |-> Repeat(NoneData, page_size),
     ref_counts |-> Repeat(0, page_size),
     free_list |-> Range(0, page_size),
     capacity |-> page_size,
     active_count |-> 0,
     page_size |-> page_size]

\* faulty variant of _expand_memory: one page is added whatever the number
\* of slots asked for
expand_one_page(p, min_required) ==
    [p EXCEPT !.data = p.data \o Repeat(NoneData, p.page_size),
              !.ref_counts = p.ref_counts \o Repeat(0, p.page_size),
              !.free_list = p.free_list \o Range(p.capacity, p.capacity + p.page_size),
              !.capacity = p.capacity + p.page_size]

\* MemoryPool._expand_memory
expand_memory(p, min_required) ==
    LET g0 == Max(p.capacity, p.page_size)
        growth == IF min_required > g0 THEN min_required + p.page_size ELSE g0
    IN [p EXCEPT !.data = p.data \o Repeat(NoneData, growth),
                 !.ref_counts = p.ref_counts \o Repeat(0, growth),
                 !.free_list = p.free_list \o Range(p.capacity, p.capacity + growth),
                 !.capacity = p.capacity + growth]

\* faulty variant of alloc_slot: the index is taken from the front of the
\* free list (popleft)
alloc_slot_from_front(p, args) ==
    [pool |-> [p EXCEPT !.free_list = Tail(p.free_list),
                        !.data[Head(p.free_list) + 1] = args,
                        !.ref_counts[Head(p.free_list) + 1] = 1,
                        !.active_count = p.active_count + 1],
     idx |-> Head(p.free_list)]

\* MemoryPool.alloc once the free list is not empty: idx = free_list.pop(),
\* the slot is written and its count set to 1
alloc_slot(p, args) ==
    LET idx == p.free_list[Len(p.free_list)] IN
    [pool |-> [p EXCEPT !.free_list = SubSeq(p.free_list, 1, Len(p.free_list) - 1),
                        !.data[idx + 1] = args,
                        !.ref_counts[idx + 1] = 1,
                        !.active_count = p.active_count + 1],
     idx |-> idx]

\* MemoryPool.alloc: [pool, idx]
pool_alloc(p0, args) ==
    alloc_slot(IF p0.free_list = <<>> THEN expand_memory(p0, 1) ELSE p0, args)

\* faulty variant of MemoryPool.retain: the count is left as it is
pool_retain_dropped(p, idx) == p

\* MemoryPool.retain
pool_retain(p, idx) ==
    IF idx < p.capacity THEN [p EXCEPT !.ref_counts[idx + 1] = @ + 1] ELSE p

\* MemoryPool.release: [pool, dead]
pool_release(p, idx) ==
    IF idx < p.capacity /\ p.ref_counts[idx + 1] > 0
    THEN IF p.ref_counts[idx + 1] - 1 = 0
         THEN [pool |-> [p EXCEPT !.ref_counts[idx + 1] = 0,
                                  !.data[idx + 1] = NoneData,
                                  !.free_list = Append(p.free_list, idx),
                                  !.active_count = p.active_count - 1],
               dead |-> TRUE]
         ELSE [pool |-> [p EXCEPT !.ref_counts[idx + 1] = @ - 1], dead |-> FALSE]
    ELSE [pool |-> p, dead |-> FALSE]

\* MemoryPool.get: None past the end of the list
pool_get(p, idx) == IF idx < Len(p.data) THEN p.data[idx + 1] ELSE NoneData

-----------------------------------------------------------------------------
(* kernel/sectors.py: SectorManager *)

\* SECTOR_CONFIG / DEFAULT_PAGE_SIZE, scaled to PageSize
PageOf(op_code) == PageSize

\* SectorManager.get_pool: the sector table with the pool of op_code created
get_pool(S, op_code) ==
    IF op_code \in DOMAIN S THEN S ELSE S @@ (op_code :> NewPool(PageOf(op_code)))

-----------------------------------------------------------------------------
(* kernel/universe.py: Universe.  U is the record of the three shared       *)
(* tables; every operation maps U (and its inputs) to the new U and its     *)
(* result.  err is "none" or the exception the call ends with.              *)

EmptyMap == [x \in {} |-> 0]

MapRemove(f, k) == [x \in DOMAIN f \ {k} |-> f[x]]

MapPut(f, k, v) == [x \in DOMAIN f \cup {k} |-> IF x = k THEN v ELSE f[x]]

EmptyU == [lookup |-> EmptyMap, blob_lookup |-> EmptyMap, sectors |-> EmptyMap]

Ok(U, id) == [U |-> U, id |-> id, err |-> "none"]

Fail(U, e) == [U |-> U, id |-> NullId, err |-> e]

NOk(U, op_code, args) == [U |-> U, op |-> op_code, args |-> args, err |-> "none"]

NFail(U, e) == [U |-> U, op |-> 0, args |-> <<>>, err |-> e]

Live(U, uid) == uid \in DOMAIN U.lookup

\* the slot of a live id: (pool.get(phys_idx))
SlotData(U, uid) == pool_get(U.sectors[get_op(uid)], U.lookup[uid])

\* reference count of a live id
RefCount(U, uid) == U.sectors[get_op(uid)].ref_counts[U.lookup[uid] + 1]

\* faulty variant of get_args: an id that is not in lookup reads as the
\* empty tuple instead of raising
get_args_unchecked(U, uid) ==
    IF ~Live(U, uid) THEN [args |-> <<>>, err |-> "none"]
    ELSE IF get_op(uid) = OP_BLOB
         THEN IF Len(SlotData(U, uid)) < 2 THEN [args |-> <<>>, err |-> "IndexError"]
              ELSE [args |-> <<SlotData(U, uid)[2]>>, err |-> "none"]
         ELSE [args |-> SlotData(U, uid), err |-> "none"]

\* Universe.get_args: [args, err].  Blob contents are one-byte strings: the
\* bytes object b is the one-cell tuple <<Raw(b)>>, and data[1] of a slot
\* that holds such a bytes object instead of (uid, data) is an IndexError
get_args(U, uid) ==
    IF ~Live(U, uid) THEN [args |-> <<>>, err |-> "ValueError"]
    ELSE LET data == SlotData(U, uid) IN
         IF get_op(uid) = OP_BLOB
         THEN IF Len(data) < 2 THEN [args |-> <<>>, err |-> "IndexError"]
              ELSE [args |-> <<data[2]>>, err |-> "none"]
         ELSE [args |-> data, err |-> "none"]

\* Universe._retain_node
retain_node(U, uid) ==
    IF ~Live(U, uid) THEN U
    ELSE LET S == get_pool(U.sectors, get_op(uid)) IN
         [U EXCEPT !.sectors = [S EXCEPT ![get_op(uid)] = pool_retain(@, U.lookup[uid])]]

RECURSIVE retain_each_once(_, _)
\* faulty variant of retain_all: an id that occurs several times in the
\* tuple is retained once
retain_each_once(U, ids) ==
    IF ids = <<>> THEN U
    ELSE LET Other(uid) == uid # Head(ids) IN
         retain_each_once(retain_node(U, Head(ids)), SelectSeq(Tail(ids), Other))

RECURSIVE retain_all(_, _)
\* the retain loops of intern: _retain_node on each id of the tuple in turn
retain_all(U, ids) ==
    IF ids = <<>> THEN U ELSE retain_all(retain_node(U, Head(ids)), Tail(ids))

\* _lookup[uid] = phys_idx, a = [pool, idx] being what pool.alloc returned
publish(U, uid, a) ==
    [U EXCEPT !.sectors = [get_pool(U.sectors, get_op(uid)) EXCEPT ![get_op(uid)] = a.pool],
              !.lookup = MapPut(U.lookup, uid, a.idx)]

\* slot allocation and publication shared by intern, intern_val, intern_blob:
\* pool.alloc(args); _lookup[uid] = phys_idx
Materialize(U, uid, args) ==
    publish(U, uid, pool_alloc(get_pool(U.sectors, get_op(uid))[get_op(uid)], args))

\* Universe.intern_val
intern_val(U, value) ==
    LET uid == compute_scalar_signature(value) IN
    IF Live(U, uid) THEN Ok(U, uid)
    ELSE Ok(Materialize(U, uid, <<Raw(value)>>), uid)

\* faulty variant of publish_blob: the blob is published in lookup alone
publish_blob_unregistered(M, bytes, uid) == M

\* _blob_lookup[data] = phys_idx, M being the tables with the blob published
publish_blob(M, bytes, uid) ==
    [M EXCEPT !.blob_lookup = MapPut(M.blob_lookup, bytes, M.lookup[uid])]

\* Universe.intern_blob
intern_blob(U, bytes) ==
    LET uid == compute_signature(OP_BLOB, <<>>, bytes)
        S == get_pool(U.sectors, OP_BLOB)
        stored == IF bytes \in DOMAIN U.blob_lookup
                  THEN pool_get(S[OP_BLOB], U.blob_lookup[bytes]) ELSE NoneData
    IN IF bytes \in DOMAIN U.blob_lookup /\ stored # NoneData
       THEN Ok([U EXCEPT !.sectors = S], stored[1])
       ELSE IF Live(U, uid) THEN Ok(U, uid)
       ELSE Ok(publish_blob(Materialize(U, uid, <<uid, Raw(bytes)>>), bytes, uid), uid)

\* the ownership rules: the cells of a stored args tuple that are retained
\* children (intern lines 81-98, delete lines 299-312)
RetainedArgs(op_code, args) ==
    IF op_code = OP_HAMT THEN Tail(args)
    ELSE IF op_code = OP_KV THEN <<args[1], args[2]>>
    ELSE IF op_code = OP_SYMBOL THEN <<args[1]>>
    ELSE IF op_code \notin {OP_SCALAR, OP_BLOB, OP_CHUNK} THEN args
    ELSE <<>>

RECURSIVE delete(_, _)
RECURSIVE delete_all(_, _)
\* Universe.delete, with its cascade: [U, err]
delete(U, uid) ==
    IF ~Live(U, uid) THEN [U |-> U, err |-> "none"]
    ELSE LET op_code == get_op(uid)
             phys_idx == U.lookup[uid]
             raw_data == pool_get(U.sectors[op_code], phys_idx)
         IN IF raw_data = NoneData THEN [U |-> U, err |-> "none"]
            ELSE LET r == pool_release(U.sectors[op_code], phys_idx)
                     U1 == [U EXCEPT !.sectors[op_code] = r.pool]
                     U2 == [U1 EXCEPT !.lookup = MapRemove(U1.lookup, uid)]
                 IN IF ~r.dead THEN [U |-> U1, err |-> "none"]
                    ELSE IF op_code = OP_BLOB /\ Len(raw_data) < 2
                    THEN [U |-> U2, err |-> "IndexError"]
                    ELSE IF op_code = OP_BLOB /\ raw_data[2].pl \in DOMAIN U2.blob_lookup
                    THEN [U |-> [U2 EXCEPT !.blob_lookup = MapRemove(U2.blob_lookup, raw_data[2].pl)],
                          err |-> "none"]
                    ELSE delete_all(U2, RetainedArgs(op_code, raw_data))

\* the cascade loops of delete: delete on each id of the tuple in turn
delete_all(U, ids) ==
    IF ids = <<>> THEN [U |-> U, err |-> "none"]
    ELSE LET d == delete(U, Head(ids)) IN
         IF d.err # "none" THEN d ELSE delete_all(d.U, Tail(ids))

-----------------------------------------------------------------------------
(* kernel/strategies.py: NormalizationStrategy, and Universe.intern, which  *)
(* it calls back through the accessor.                                      *)

RECURSIVE SumSeq(_)
SumSeq(s) == IF s = <<>> THEN 0 ELSE Head(s) + SumSeq(Tail(s))

RECURSIVE ProdSeq(_)
ProdSeq(s) == IF s = <<>> THEN 1 ELSE Head(s) * ProdSeq(Tail(s))

\* the scalar payload read from the slot: accessor.get_args(uid)[0]
ScalarValue(U, uid) == SlotData(U, uid)[1].pl

RECURSIVE flatten_args(_, _, _)
\* the second loop of _flatten: [args, err]
flatten_args(U, op_code, args) ==
    IF args = <<>> THEN [args |-> <<>>, err |-> "none"]
    ELSE LET rest == flatten_args(U, op_code, Tail(args))
             inner == get_args(U, Head(args))
         IN IF get_op(Head(args)) = op_code
            THEN IF inner.err # "none" THEN [args |-> <<>>, err |-> inner.err]
                 ELSE IF rest.err # "none" THEN rest
                 ELSE [args |-> inner.args \o rest.args, err |-> "none"]
            ELSE IF rest.err # "none" THEN rest
                 ELSE [args |-> <<Head(args)>> \o rest.args, err |-> "none"]

\* NormalizationStrategy._flatten
flatten(U, op_code, args) ==
    IF \E i \in 1..Len(args) : get_op(args[i]) = op_code
    THEN flatten_args(U, op_code, args)
    ELSE [args |-> args, err |-> "none"]

\* the (op, args) of a node: accessor.get_op(uid), accessor.get_args(uid)
OpAndArgs(U, uid) ==
    LET a == get_args(U, uid) IN
    IF a.err # "none" THEN NFail(U, a.err) ELSE NOk(U, get_op(uid), a.args)

\* the (op, args) of the node an intern call returned: res = intern_val(..);
\* return get_op(res), get_args(res)
ResultOpAndArgs(res) == IF res.err # "none" THEN NFail(res.U, res.err) ELSE OpAndArgs(res.U, res.id)

\* (accum_id,) + tuple(symbolic), accum_id being what intern_val returned
PrependScalar(acc, symbolic) == NOk(acc.U, 0, <<acc.id>> \o symbolic)

\* the first place where the scan of _fold_scalars stops early: a scalar
\* that is not live (get_args raises) or, for mul, a scalar 0; 0 if none
FoldStop(U, op_code, args) ==
    LET stops == {i \in 1..Len(args) :
                    /\ get_op(args[i]) = OP_SCALAR
                    /\ \/ ~Live(U, args[i])
                       \/ op_code = OP_MUL /\ ScalarValue(U, args[i]) = 0}
    IN IF stops = {} THEN 0 ELSE CHOOSE i \in stops : \A j \in stops : i <= j

\* faulty variant of fold_scalars: an accumulator equal to the neutral
\* element is kept in front of the symbolic args
fold_scalars_keeping_neutral(U, op_code, args) ==
    LET stop == FoldStop(U, op_code, args)
        IsScalar(uid) == get_op(uid) = OP_SCALAR
        NotScalar(uid) == get_op(uid) # OP_SCALAR
        scalarIds == SelectSeq(args, IsScalar)
        scalars == [i \in 1..Len(scalarIds) |-> ScalarValue(U, scalarIds[i])]
        symbolic == SelectSeq(args, NotScalar)
        accum == IF op_code = OP_ADD THEN SumSeq(scalars) ELSE ProdSeq(scalars)
    IN IF stop # 0
       THEN IF ~Live(U, args[stop]) THEN NFail(U, "ValueError")
            ELSE ResultOpAndArgs(intern_val(U, 0))
       ELSE IF scalarIds = <<>> THEN NOk(U, 0, args)
       ELSE PrependScalar(intern_val(U, accum), symbolic)

\* NormalizationStrategy._fold_scalars: op = 0 stands for None
fold_scalars(U, op_code, args) ==
    LET stop == FoldStop(U, op_code, args)
        IsScalar(uid) == get_op(uid) = OP_SCALAR
        NotScalar(uid) == get_op(uid) # OP_SCALAR
        scalarIds == SelectSeq(args, IsScalar)
        scalars == [i \in 1..Len(scalarIds) |-> ScalarValue(U, scalarIds[i])]
        symbolic == SelectSeq(args, NotScalar)
        neutral == IF op_code = OP_ADD THEN 0 ELSE 1
        accum == IF op_code = OP_ADD THEN SumSeq(scalars) ELSE ProdSeq(scalars)
    IN IF stop # 0
       THEN IF ~Live(U, args[stop]) THEN NFail(U, "ValueError")
            ELSE ResultOpAndArgs(intern_val(U, 0))
       ELSE IF scalarIds = <<>> THEN NOk(U, 0, args)
       ELSE IF accum = neutral
            THEN IF symbolic = <<>>
                 THEN ResultOpAndArgs(intern_val(U, neutral))
                 ELSE NOk(U, 0, symbolic)
            ELSE PrependScalar(intern_val(U, accum), symbolic)

RECURSIVE DistinctInOrder(_)
\* the keys of the counts dict, in insertion order
DistinctInOrder(s) ==
    IF s = <<>> THEN <<>>
    ELSE LET init == SubSeq(s, 1, Len(s) - 1)
             d == DistinctInOrder(init)
         IN IF \E i \in 1..Len(init) : init[i] = s[Len(s)] THEN d ELSE Append(d, s[Len(s)])

CountOf(s, x) == Cardinality({i \in 1..Len(s) : s[i] = x})

RECURSIVE intern(_, _, _)
RECURSIVE normalize(_, _, _)
RECURSIVE group_loop(_, _, _, _, _)
RECURSIVE dual_loop(_, _, _)
RECURSIVE dual_append(_, _, _)

RECURSIVE group_append(_, _, _, _, _)

\* faulty variant of group_term: the operators of the two cases are
\* exchanged, x + x -> x^2 and x * x -> 2*x
group_term_exchanged(op_code, uid, count_node) ==
    intern(count_node.U,
           IF op_code = OP_ADD THEN OP_POW ELSE OP_MUL,
           IF op_code = OP_ADD THEN <<uid, count_node.id>> ELSE <<count_node.id, uid>>)

\* the term of a repeated uid: x + x -> 2*x, x * x -> x^2, count_node being
\* what intern_val(count) returned
group_term(op_code, uid, count_node) ==
    intern(count_node.U,
           IF op_code = OP_ADD THEN OP_MUL ELSE OP_POW,
           IF op_code = OP_ADD THEN <<count_node.id, uid>> ELSE <<uid, count_node.id>>)

\* the loop of _group_terms over counts.items()
group_loop(U, op_code, args, keys, new_terms) ==
    IF keys = <<>> THEN NOk(U, 0, new_terms)
    ELSE LET uid == Head(keys)
             count == CountOf(args, uid)
         IN IF count = 1 THEN group_loop(U, op_code, args, Tail(keys), Append(new_terms, uid))
            ELSE group_append(op_code, args, keys, new_terms,
                              group_term(op_code, uid, intern_val(U, count)))

\* new_terms.append(term) and the rest of the loop, or the exception that
\* intern raised
group_append(op_code, args, keys, new_terms, term) ==
    IF term.err # "none" THEN NFail(term.U, term.err)
    ELSE group_loop(term.U, op_code, args, Tail(keys), Append(new_terms, term.id))

\* NormalizationStrategy._group_terms
group_terms(U, op_code, args) ==
    LET keys == DistinctInOrder(args) IN
    IF Len(keys) = Len(args) THEN NOk(U, 0, args)
    ELSE group_loop(U, op_code, args, keys, <<>>)

\* faulty variant of dual_append: the dual of a component is put in front
\* of the components done so far
dual_append_in_front(comps, new_components, dual_comp) ==
    IF dual_comp.err # "none" THEN NFail(dual_comp.U, dual_comp.err)
    ELSE dual_loop(dual_comp.U, Tail(comps), <<dual_comp.id>> \o new_components)

\* the loop of _distribute_dual_over_tensor
dual_loop(U, comps, new_components) ==
    IF comps = <<>> THEN NOk(U, OP_TENSOR, new_components)
    ELSE dual_append(comps, new_components, intern(U, OP_DUAL, <<Head(comps)>>))

\* new_components.append(dual_comp) and the rest of the loop, or the
\* exception that intern raised
dual_append(comps, new_components, dual_comp) ==
    IF dual_comp.err # "none" THEN NFail(dual_comp.U, dual_comp.err)
    ELSE dual_loop(dual_comp.U, Tail(comps), Append(new_components, dual_comp.id))

\* NormalizationStrategy._distribute_dual_over_tensor
distribute_dual_over_tensor(U, tensor_id) ==
    LET comps == get_args(U, tensor_id) IN
    IF comps.err # "none" THEN NFail(U, comps.err) ELSE dual_loop(U, comps.args, <<>>)

\* return OP_POW, (inner_base, new_exp), new_exp being what intern returned
nested_pow(inner_base, new_exp) ==
    IF new_exp.err # "none" THEN NFail(new_exp.U, new_exp.err)
    ELSE NOk(new_exp.U, OP_POW, <<inner_base, new_exp.id>>)

\* NormalizationStrategy._reduce_pow: op = 0 stands for None
reduce_pow(U, base_id, exp_id) ==
    LET exp_live == get_args(U, exp_id)
        exp_val == exp_live.args[1].pl
        inner == get_args(U, base_id)
    IN IF get_op(exp_id) = OP_SCALAR /\ exp_live.err # "none" THEN NFail(U, exp_live.err)
       ELSE IF get_op(exp_id) = OP_SCALAR /\ exp_val = 0
            THEN ResultOpAndArgs(intern_val(U, 1))
       ELSE IF get_op(exp_id) = OP_SCALAR /\ exp_val = 1 THEN OpAndArgs(U, base_id)
       ELSE IF get_op(base_id) = OP_POW
            THEN IF inner.err # "none" THEN NFail(U, inner.err)
                 ELSE IF Len(inner.args) # 2 THEN NFail(U, "ValueError")
                 ELSE nested_pow(inner.args[1], intern(U, OP_MUL, <<inner.args[2], exp_id>>))
       ELSE NOk(U, 0, <<>>)

\* NormalizationStrategy._reduce_exp: op = 0 stands for None
reduce_exp(U, arg_id) ==
    LET a == get_args(U, arg_id) IN
    IF get_op(arg_id) # OP_SCALAR THEN NOk(U, 0, <<>>)
    ELSE IF a.err # "none" THEN NFail(U, a.err)
    ELSE IF a.args[1].pl = 0 THEN ResultOpAndArgs(intern_val(U, 1))
    ELSE NOk(U, 0, <<>>)

\* normalize, from step 4 (dual and tensor) to the end
normalize_tail(U, op_code, args0) ==
    LET traits == get_traits(op_code)
        child == args0[1]
        gc == get_args(U, child)
        args == IF "IDEMPOTENT" \in traits THEN Sorted(DistinctInOrder(args0)) ELSE args0
        \* res = _reduce_pow(...) / _reduce_exp(...); if res: return res
        Reduced(res) == IF res.err # "none" \/ res.op # 0 THEN res ELSE NOk(U, op_code, args)
    IN IF op_code = OP_DUAL /\ Len(args0) = 1 /\ get_op(child) = OP_DUAL /\ gc.err # "none"
       THEN NFail(U, gc.err)
       ELSE IF op_code = OP_DUAL /\ Len(args0) = 1 /\ get_op(child) = OP_DUAL /\ gc.args # <<>>
       THEN OpAndArgs(U, gc.args[1])
       ELSE IF op_code = OP_DUAL /\ Len(args0) = 1 /\ get_op(child) = OP_TENSOR
       THEN distribute_dual_over_tensor(U, child)
       ELSE IF "ASSOCIATIVE" \in traits /\ Len(args) = 1 THEN OpAndArgs(U, args[1])
       ELSE IF op_code = OP_POW /\ Len(args) = 2 THEN Reduced(reduce_pow(U, args[1], args[2]))
       ELSE IF op_code = OP_EXP /\ Len(args) = 1 THEN Reduced(reduce_exp(U, args[1]))
       ELSE NOk(U, op_code, args)

\* normalize step 3B (grouping), fo being what _fold_scalars returned
normalize_group(op_code, fo) ==
    IF fo.err # "none" \/ fo.op # 0 \/ Len(fo.args) < 2 THEN fo
    ELSE group_terms(fo.U, op_code, fo.args)

\* normalize step 3 (arithmetic algebra), fl being what step 2 left in args
normalize_arith(U, op_code, fl) ==
    IF fl.err # "none" THEN NFail(U, fl.err)
    ELSE IF "COMMUTATIVE" \in get_traits(op_code) /\ op_code \in {OP_ADD, OP_MUL}
    THEN normalize_group(op_code, fold_scalars(U, op_code, fl.args))
    ELSE NOk(U, 0, fl.args)

\* normalize after step 3: its early return, or steps 4 to the end
normalize_rest(op_code, r) ==
    IF r.err # "none" \/ r.op # 0 THEN r ELSE normalize_tail(r.U, op_code, r.args)

\* NormalizationStrategy.normalize: [U, op, args, err]
normalize(U, op_code, args0) ==
    normalize_rest(op_code,
        normalize_arith(U, op_code,
            IF "ASSOCIATIVE" \in get_traits(op_code) THEN flatten(U, op_code, args0)
            ELSE [args |-> args0, err |-> "none"]))

\* faulty variant of materialize_node: the children are retained and the
\* slot is allocated, but the id is not written to _lookup
materialize_node_unpublished(U, new_op, full_id, args_canonical) ==
    [retain_all([U EXCEPT !.sectors = get_pool(U.sectors, new_op)],
                RetainedArgs(new_op, args_canonical))
        EXCEPT !.sectors[new_op] = pool_alloc(@, args_canonical).pool]

\* step 5 of intern: retain the children, allocate the slot, publish the id
materialize_node(U, new_op, full_id, args_canonical) ==
    Materialize(retain_all([U EXCEPT !.sectors = get_pool(U.sectors, new_op)],
                           RetainedArgs(new_op, args_canonical)),
                full_id, args_canonical)

\* faulty variant of LockedHit: the re-check under the lock never finds
\* the id
LockedHit_skipped(U, full_id) == FALSE

\* the locked re-check of intern (line 75)
LockedHit(U, full_id) == Live(U, full_id)

\* intern steps 4 and 5: the optimistic probe, the locked re-check and the
\* materialization
intern_lookup(U, new_op, args_canonical, full_id) ==
    IF Live(U, full_id) THEN Ok(U, full_id)
    ELSE IF LockedHit(U, full_id) THEN Ok(U, full_id)
    ELSE Ok(materialize_node(U, new_op, full_id, args_canonical), full_id)

\* intern step 3: the signature of the canonical args
intern_sign(U, new_op, args_canonical) ==
    IF new_op = OP_HAMT /\ args_canonical = <<>> THEN Fail(U, "ValueError")
    ELSE intern_lookup(U, new_op, args_canonical,
                       IF new_op = OP_HAMT
                       THEN compute_signature(new_op, Tail(args_canonical), args_canonical[1].pl)
                       ELSE compute_signature(new_op, args_canonical, 0))

\* intern from step 2 on, n being what normalize returned
intern_normalized(n) ==
    IF n.err # "none" THEN Fail(n.U, n.err)
    ELSE IF n.op = OP_SCALAR THEN intern_val(n.U, n.args[1].pl)
    ELSE intern_sign(n.U, n.op, sort_args(n.op, n.args))

\* Universe.intern: [U, id, err]
intern(U, op_code, args) ==
    IF op_code = OP_SCALAR
    THEN IF Len(args) # 1 THEN Fail(U, "ValueError") ELSE intern_val(U, args[1].pl)
    ELSE intern_normalized(normalize(U, op_code, args))

-----------------------------------------------------------------------------
(* Sequential runs: one thread calling the interface of Universe and Node. *)

\* the shared tables as one record
Univ == [lookup |-> lookup, blob_lookup |-> blob_lookup, sectors |-> sectors]

SetUniv(U) ==
    /\ lookup' = U.lookup
    /\ blob_lookup' = U.blob_lookup
    /\ sectors' = U.sectors

NoCall == [call |-> "none", op |-> 0, args |-> <<>>, id |-> NullId, err |-> "none", fresh |-> FALSE]

\* the variables of the HAMT runs and of the concurrent runs
otherVars == <<hmaps, hhash, queues, pc, job, loc, lock, pool_locks, done>>

OtherIdle ==
    /\ hmaps = <<>>
    /\ hhash = EmptyMap
    /\ queues = <<>>
    /\ pc = EmptyMap
    /\ job = EmptyMap
    /\ loc = EmptyMap
    /\ lock = [owner |-> 0, depth |-> 0]
    /\ pool_locks = <<>>
    /\ done = <<>>

Init ==
    /\ lookup = EmptyMap
    /\ blob_lookup = EmptyMap
    /\ sectors = EmptyMap
    /\ last = NoCall
    /\ calls = 0
    /\ uretain = EmptyMap
    /\ deletes = 0
    /\ OtherIdle

\* every tuple of length n over the set S
TuplesOf(S, n) == [1..n -> S]

\* operators offered to intern, with the arities offered for each
SeqOps == {OP_ADD, OP_MUL, OP_POW, OP_EXP, OP_CONS, OP_TENSOR, OP_DUAL}

Arities(op_code) ==
    IF op_code \in {OP_ADD, OP_MUL, OP_TENSOR} THEN 1..MaxArgs
    ELSE IF op_code \in {OP_POW, OP_CONS} THEN {2}
    ELSE {1}

\* the call returned r = [U, id, err]: the tables it left, and the record
\* of the call; fresh says that the id it returned was not live before
Record(call, op_code, args, r) ==
    /\ SetUniv(r.U)
    /\ last' = [call |-> call, op |-> op_code, args |-> args, id |-> r.id,
                err |-> r.err, fresh |-> r.err = "none" /\ ~Live(Univ, r.id)]
    /\ calls' = calls + 1

\* a call of the sequential runs returned r; the run keeps to MaxLive ids
Returned(call, op_code, args, r) ==
    /\ Cardinality(DOMAIN r.U.lookup) <= MaxLive
    /\ Record(call, op_code, args, r)

\* intern(OP_SYMBOL, (name_id,)), name_id being what intern_blob returned
symbol_of(b) == intern(b.U, OP_SYMBOL, <<b.id>>)

\* the result of delete(uid) as a call record
delete_result(uid, d) == [U |-> d.U, id |-> uid, err |-> d.err]

\* Node.symbol(name): intern_blob(name), then intern(OP_SYMBOL, (name_id,))
NodeSymbol(name) ==
    /\ calls < MaxCalls
    /\ Returned("symbol", OP_SYMBOL, <<compute_signature(OP_BLOB, <<>>, name)>>,
                symbol_of(intern_blob(Univ, name)))
    /\ UNCHANGED <<uretain, deletes, otherVars>>

\* Universe.intern_val(value)
InternVal(value) ==
    /\ calls < MaxCalls
    /\ Returned("intern_val", OP_SCALAR, <<Raw(value)>>, intern_val(Univ, value))
    /\ UNCHANGED <<uretain, deletes, otherVars>>

\* Universe.intern(op_code, args) on live ids
Intern(op_code, args) ==
    /\ calls < MaxCalls
    /\ Returned("intern", op_code, args, intern(Univ, op_code, args))
    /\ UNCHANGED <<uretain, deletes, otherVars>>

\* Universe.retain(uid)
Retain(uid) ==
    /\ calls < MaxCalls
    /\ Returned("retain", get_op(uid), <<uid>>, Ok(retain_node(Univ, uid), uid))
    /\ uretain' = IF Live(Univ, uid)
                  THEN MapPut(uretain, uid, IF uid \in DOMAIN uretain THEN uretain[uid] + 1 ELSE 1)
                  ELSE uretain
    /\ UNCHANGED <<deletes, otherVars>>

\* Universe.delete(uid)
Delete(uid) ==
    /\ calls < MaxCalls
    /\ Returned("delete", get_op(uid), <<uid>>, delete_result(uid, delete(Univ, uid)))
    /\ uretain' = IF uid \in DOMAIN uretain /\ uretain[uid] > 0
                  THEN MapPut(uretain, uid, uretain[uid] - 1)
                  ELSE uretain
    /\ deletes' = deletes + 1
    /\ UNCHANGED otherVars

Next ==
    \/ \E name \in 1..MaxNames : NodeSymbol(name)
    \/ \E value \in (-MaxNeg)..MaxVal : InternVal(value)
    \/ \E op_code \in SeqOps : \E n \in Arities(op_code) :
          \E args \in TuplesOf(DOMAIN lookup, n) : Intern(op_code, args)
    \/ \E uid \in DOMAIN lookup : Retain(uid)
    \/ \E uid \in DOMAIN lookup : Delete(uid)

Spec == Init /\ [][Next]_vars

-----------------------------------------------------------------------------
(* memory/allocator.py and kernel/universe.py: the batch path *)

RECURSIVE alloc_batch_loop(_, _, _)
\* the assignment loop of MemoryPool.alloc_batch
alloc_batch_loop(p, batch_args, indices) ==
    IF batch_args = <<>> THEN [pool |-> p, indices |-> indices, err |-> "none"]
    ELSE IF p.free_list = <<>> THEN [pool |-> p, indices |-> indices, err |-> "RuntimeError"]
    ELSE LET idx == p.free_list[Len(p.free_list)] IN
         alloc_batch_loop([p EXCEPT !.free_list = SubSeq(p.free_list, 1, Len(p.free_list) - 1),
                                    !.data[idx + 1] = Head(batch_args),
                                    !.ref_counts[idx + 1] = 1],
                          Tail(batch_args), Append(indices, idx))

\* MemoryPool.alloc_batch: [pool, indices, err].  A pop of the loop that
\* finds the free list empty ends the call with the RuntimeError of a
\* corrupt allocator, before active_count is updated
pool_alloc_batch(p0, batch_args) ==
    LET count == Len(batch_args)
        free_slots == Len(p0.free_list)
        p1 == IF free_slots < count THEN expand_memory(p0, count - free_slots) ELSE p0
        r == alloc_batch_loop(p1, batch_args, <<>>)
    IN IF r.err # "none" THEN r
       ELSE [pool |-> [r.pool EXCEPT !.active_count = @ + count], indices |-> r.indices,
             err |-> "none"]

\* the id intern_batch computes for one args tuple (phase 1)
batch_id(op_code, args) ==
    IF op_code = OP_HAMT THEN compute_signature(op_code, Tail(args), args[1].pl)
    ELSE compute_signature(op_code, args, 0)

\* the cells intern_batch retains for a tuple it materializes (lines 155-165)
BatchRetainedArgs(op_code, args) ==
    IF op_code = OP_HAMT THEN Tail(args)
    ELSE IF op_code = OP_KV THEN <<args[1], args[2]>>
    ELSE IF op_code \notin {OP_SCALAR, OP_BLOB, OP_SYMBOL, OP_CHUNK} THEN args
    ELSE <<>>

RECURSIVE Concat(_)
Concat(ss) == IF ss = <<>> THEN <<>> ELSE Head(ss) \o Concat(Tail(ss))

RECURSIVE publish_all(_, _, _)
\* the publication loop of intern_batch: _lookup[uid] = phys_idx in turn
publish_all(L, uids, phys_indices) ==
    IF uids = <<>> THEN L
    ELSE publish_all(MapPut(L, Head(uids), Head(phys_indices)), Tail(uids), Tail(phys_indices))

\* Universe.intern_batch: [U, ids, err].  A skipped empty HAMT tuple keeps
\* the 0 its result cell was initialized with
intern_batch(U, op_code, list_of_args) ==
    LET n == Len(list_of_args)
        Skipped(i) == op_code = OP_HAMT /\ list_of_args[i] = <<>>
        ToAlloc(i) == ~Skipped(i) /\ ~Live(U, batch_id(op_code, list_of_args[i]))
        to_alloc_indices == SelectSeq([i \in 1..n |-> i], ToAlloc)
        to_alloc_ids == [k \in 1..Len(to_alloc_indices) |->
                            batch_id(op_code, list_of_args[to_alloc_indices[k]])]
        final_alloc_data == [k \in 1..Len(to_alloc_indices) |-> list_of_args[to_alloc_indices[k]]]
        results == [i \in 1..n |-> IF Skipped(i) THEN Raw(0)
                                   ELSE batch_id(op_code, list_of_args[i])]
        S == get_pool(U.sectors, op_code)
        ab == pool_alloc_batch(S[op_code], final_alloc_data)
        U1 == [U EXCEPT !.sectors = [S EXCEPT ![op_code] = ab.pool]]
        U2 == retain_all(U1, Concat([k \in 1..Len(final_alloc_data) |->
                                        BatchRetainedArgs(op_code, final_alloc_data[k])]))
        U3 == [U2 EXCEPT !.lookup = publish_all(U2.lookup, to_alloc_ids, ab.indices)]
    IN IF to_alloc_indices = <<>> THEN [U |-> U, ids |-> results, err |-> "none"]
       ELSE IF ab.err # "none" THEN [U |-> U1, ids |-> <<>>, err |-> ab.err]
       ELSE [U |-> U3, ids |-> results, err |-> "none"]

-----------------------------------------------------------------------------
(* hashing/utils.py and ds/hamt.py: the persistent map.  A 64-bit           *)
(* projection is the sequence of its chunks of SHIFT_STEP bits, lowest      *)
(* first; a bitmap is the integer the code holds.                           *)

SHIFT_STEP == 5
MASK == 31

\* width of the projection (MASK_64)
HashBits == 64

\* chunks of SHIFT_STEP bits that cover the projection
HashChunks == (HashBits + SHIFT_STEP - 1) \div SHIFT_STEP

\* holographic_hash: the projection of a key id, fixed for the run
holographic_hash(uid) == hhash[uid]

\* (h >> shift) & MASK
BitIndex(h, shift) ==
    IF shift \div SHIFT_STEP < Len(h) THEN h[(shift \div SHIFT_STEP) + 1] ELSE 0

RECURSIVE Pow2(_)
\* 1 << n
Pow2(n) == IF n = 0 THEN 1 ELSE 2 * Pow2(n - 1)

RECURSIVE bit_count(_)
\* int.bit_count
bit_count(n) == IF n = 0 THEN 0 ELSE (n % 2) + bit_count(n \div 2)

\* (bitmap & bit_mask) != 0, for bit_mask a power of two
BitIsSet(bitmap, bit_mask) == (bitmap \div bit_mask) % 2 = 1

\* the shift from which every key reads chunk 0: two keys that still share
\* a leaf there share it at every deeper level, and the recursion of put or
\* of from_map ends with Python's RecursionError
ShiftLimit == (HashChunks + 1) * SHIFT_STEP

RECURSIVE put_recursive(_, _, _, _, _, _)

\* HAMT._put_recursive_raw
put_recursive_raw(U, node_uid, k_uid, v_uid, shift) ==
    put_recursive(U, node_uid, k_uid, v_uid, holographic_hash(k_uid), shift)

\* the HAMT node with the child at child_idx replaced (lines 75-80),
\* new_child being what the recursive put returned
replace_child(bitmap, children, child_idx, new_child) ==
    IF new_child.err # "none" THEN new_child
    ELSE intern(new_child.U, OP_HAMT,
                <<Raw(bitmap)>> \o [children EXCEPT ![child_idx + 1] = new_child.id])

\* faulty variant of insert_leaf: the new leaf is appended after the
\* children
insert_leaf_last(new_bitmap, children, child_idx, new_leaf) ==
    IF new_leaf.err # "none" THEN new_leaf
    ELSE intern(new_leaf.U, OP_HAMT, <<Raw(new_bitmap)>> \o children \o <<new_leaf.id>>)

\* the HAMT node with a leaf inserted at child_idx (lines 82-88), new_leaf
\* being what intern(OP_KV, ..) returned
insert_leaf(new_bitmap, children, child_idx, new_leaf) ==
    IF new_leaf.err # "none" THEN new_leaf
    ELSE intern(new_leaf.U, OP_HAMT,
                <<Raw(new_bitmap)>>
                    \o SubSeq(children, 1, child_idx)
                    \o <<new_leaf.id>>
                    \o SubSeq(children, child_idx + 1, Len(children)))

\* HAMT._put_recursive, the branch of a HAMT node
put_hamt(U, args, key, value, h, shift) ==
    LET bitmap == args[1].pl
        children == Tail(args)
        bit_index == BitIndex(h, shift)
        bit_mask == Pow2(bit_index)
        child_idx == bit_count(bitmap % bit_mask)
    IN IF BitIsSet(bitmap, bit_mask)
       THEN replace_child(bitmap, children, child_idx,
                          put_recursive(U, children[child_idx + 1], key, value, h,
                                        shift + SHIFT_STEP))
       ELSE insert_leaf(bitmap + bit_mask, children, child_idx, intern(U, OP_KV, <<key, value>>))

\* _put_recursive_raw(sub_node, k, v, shift), sub_node being what
\* intern(OP_HAMT, (0,)) returned
put_raw_into(sub_node, k_uid, v_uid, shift) ==
    IF sub_node.err # "none" THEN sub_node
    ELSE put_recursive_raw(sub_node.U, sub_node.id, k_uid, v_uid, shift)

\* _put_recursive(sub_node, key, value, h, shift), sub_node being what the
\* call before it returned
put_into(sub_node, key, value, h, shift) ==
    IF sub_node.err # "none" THEN sub_node
    ELSE put_recursive(sub_node.U, sub_node.id, key, value, h, shift)

\* faulty variant of put_kv: on a collision the pair of the leaf is not put
\* into the new sub-trie
put_kv_losing(U, args, key, value, h, shift) ==
    IF args[1] = key THEN intern(U, OP_KV, <<key, value>>)
    ELSE IF shift >= ShiftLimit THEN Fail(U, "RecursionError")
    ELSE put_into(intern(U, OP_HAMT, <<Raw(0)>>), key, value, h, shift)

\* HAMT._put_recursive, the branch of a KV leaf
put_kv(U, args, key, value, h, shift) ==
    LET existing_key_uid == args[1]
        existing_val_uid == args[2]
    IN IF existing_key_uid = key THEN intern(U, OP_KV, <<key, value>>)
       ELSE IF shift >= ShiftLimit THEN Fail(U, "RecursionError")
       ELSE put_into(put_raw_into(intern(U, OP_HAMT, <<Raw(0)>>),
                                  existing_key_uid, existing_val_uid, shift),
                     key, value, h, shift)

\* HAMT._put_recursive: [U, id, err]
put_recursive(U, node_uid, key, value, h, shift) ==
    LET op == get_op(node_uid)
        a == get_args(U, node_uid)
    IN IF a.err # "none" THEN Fail(U, a.err)
       ELSE IF op = OP_HAMT THEN put_hamt(U, a.args, key, value, h, shift)
       ELSE IF op = OP_KV THEN put_kv(U, a.args, key, value, h, shift)
       ELSE Fail(U, "ValueError")

\* the result of a get: a value id, or NullId for None
Found(v) == [val |-> v, err |-> "none"]

RECURSIVE get_recursive(_, _, _, _, _)
\* HAMT._get_recursive: [val, err]
get_recursive(U, node_uid, key, h, shift) ==
    LET op == get_op(node_uid)
        a == get_args(U, node_uid)
        bitmap == a.args[1].pl
        bit_mask == Pow2(BitIndex(h, shift))
        child_idx == bit_count(bitmap % bit_mask)
    IN IF a.err # "none" THEN [val |-> NullId, err |-> a.err]
       ELSE IF op = OP_HAMT
       THEN IF ~BitIsSet(bitmap, bit_mask) THEN Found(NullId)
            ELSE get_recursive(U, a.args[1 + child_idx + 1], key, h, shift + SHIFT_STEP)
       ELSE IF op = OP_KV
       THEN IF a.args[1] = key THEN Found(a.args[2]) ELSE Found(NullId)
       ELSE Found(NullId)

\* HAMT.empty
hamt_empty(U) == intern(U, OP_HAMT, <<Raw(0)>>)

\* HAMT.put
hamt_put(U, uid, key, value) == put_recursive(U, uid, key, value, holographic_hash(key), 0)

\* HAMT.get
hamt_get(U, uid, key) == get_recursive(U, uid, key, holographic_hash(key), 0)

RECURSIVE HashCmp(_, _, _)
\* numeric comparison of two projections (-1, 0, 1), highest chunk first
HashCmp(h1, h2, i) ==
    IF i = 0 THEN 0
    ELSE IF h1[i] # h2[i] THEN (IF h1[i] < h2[i] THEN -1 ELSE 1)
    ELSE HashCmp(h1, h2, i - 1)

RECURSIVE InsertByHash(_, _)
InsertByHash(s, x) ==
    IF s = <<>> THEN <<x>>
    ELSE IF HashCmp(x[1], Head(s)[1], HashChunks) < 0 THEN <<x>> \o s
    ELSE <<Head(s)>> \o InsertByHash(Tail(s), x)

RECURSIVE SortByHash(_)
\* leaf_nodes.sort(key=lambda x: x[0]): ascending, stable
SortByHash(s) ==
    IF s = <<>> THEN <<>>
    ELSE InsertByHash(SortByHash(SubSeq(s, 1, Len(s) - 1)), s[Len(s)])

RECURSIVE build_hamt_recursive(_, _, _)
RECURSIVE build_buckets(_, _, _, _, _, _)
RECURSIVE bucket_append(_, _, _, _, _, _)

\* the loop of _build_hamt_recursive over the 32 buckets, from bucket i
build_buckets(U, sorted_items, shift, i, bitmap, children_uids) ==
    IF i > MASK THEN intern(U, OP_HAMT, <<Raw(bitmap)>> \o children_uids)
    ELSE LET InBucket(item) == BitIndex(item[1], shift) = i
             bucket == SelectSeq(sorted_items, InBucket)
         IN IF bucket = <<>>
            THEN build_buckets(U, sorted_items, shift, i + 1, bitmap, children_uids)
            ELSE bucket_append(sorted_items, shift, i, bitmap, children_uids,
                               build_hamt_recursive(U, bucket, shift + SHIFT_STEP))

\* children_uids.append(child_uid); bitmap |= (1 << i), and the rest of the
\* loop, child being what the recursive build returned
bucket_append(sorted_items, shift, i, bitmap, children_uids, child) ==
    IF child.err # "none" THEN child
    ELSE build_buckets(child.U, sorted_items, shift, i + 1,
                       bitmap + Pow2(i), Append(children_uids, child.id))

\* Universe._build_hamt_recursive: [U, id, err]
build_hamt_recursive(U, sorted_items, shift) ==
    IF Len(sorted_items) = 1 THEN Ok(U, sorted_items[1][2])
    ELSE IF shift >= ShiftLimit THEN Fail(U, "RecursionError")
    ELSE build_buckets(U, sorted_items, shift, 0, 0, <<>>)

\* faulty variant of from_map_root: the root is returned as it was built
from_map_root_unwrapped(leaf_nodes, root) == root

\* from_map lines 209-214: a lone leaf is wrapped into a HAMT node, root
\* being what _build_hamt_recursive returned
from_map_root(leaf_nodes, root) ==
    IF root.err # "none" THEN root
    ELSE IF get_op(root.id) = OP_KV
    THEN intern(root.U, OP_HAMT, <<Raw(Pow2(BitIndex(leaf_nodes[1][1], 0))), root.id>>)
    ELSE root

\* from_map line 204: the bottom-up build over the sorted leaves
from_map_build(U, leaf_nodes) ==
    from_map_root(leaf_nodes, build_hamt_recursive(U, leaf_nodes, 0))

\* from_map lines 193-201: the leaves (hash, kv_id) sorted by hash, b being
\* what intern_batch returned
from_map_leaves(items, b) ==
    from_map_build(b.U, SortByHash([i \in 1..Len(items) |->
                                       <<holographic_hash(items[i][1]), b.ids[i]>>]))

\* Universe.from_map on the items of the dict, in the order of the dict:
\* [U, id, err]
from_map(U, items) ==
    IF items = <<>> THEN intern(U, OP_HAMT, <<Raw(0)>>)
    ELSE from_map_leaves(items, intern_batch(U, OP_KV, items))

-----------------------------------------------------------------------------
(* Runs of the persistent map: a run starts with HAMT.empty or from_map and *)
(* goes on with puts on the versions built so far; each version is         *)
(* recorded with the map its history defines.                              *)

\* key ids of the map runs: the scalars 0..MaxKey
MaxKey == 2
\* value ids of the map runs: the scalars 0..MaxMapVal
MaxMapVal == 1
\* calls of one map run
MaxMapCalls == 3

HKeys == {compute_scalar_signature(v) : v \in 0..MaxKey}

HVals == {compute_scalar_signature(v) : v \in 0..MaxMapVal}

RECURSIVE intern_vals(_, _, _)
\* Node.val on each of lo..hi in turn
intern_vals(U, lo, hi) ==
    IF lo > hi THEN U ELSE intern_vals(intern_val(U, lo).U, lo + 1, hi)

\* a projection with the given first, second and last chunk, 0 elsewhere
HashOf(c1, c2, cl) ==
    [i \in 1..HashChunks |-> IF i = 1 THEN c1 ELSE IF i = 2 THEN c2
                             ELSE IF i = HashChunks THEN cl ELSE 0]

\* projections offered to the keys: two of them part at the first level, at
\* the second level or at the last level, or do not part at all; the key 0
\* has the first of them
HashValues == {HashOf(0, 0, 0), HashOf(1, 0, 0), HashOf(0, 1, 0), HashOf(0, 0, 1)}

\* the variables of the sequential interface and of the concurrent runs
hamtIdle == <<uretain, deletes, queues, pc, job, loc, lock, pool_locks, done>>

HInit ==
    /\ LET U == intern_vals(EmptyU, 0, Max(MaxKey, MaxMapVal))
       IN /\ lookup = U.lookup
          /\ blob_lookup = U.blob_lookup
          /\ sectors = U.sectors
    /\ hhash \in {f \in [HKeys -> HashValues] : f[compute_scalar_signature(0)] = HashOf(0, 0, 0)}
    /\ hmaps = <<>>
    /\ queues = <<>>
    /\ last = NoCall
    /\ calls = 0
    /\ uretain = EmptyMap
    /\ deletes = 0
    /\ pc = EmptyMap
    /\ job = EmptyMap
    /\ loc = EmptyMap
    /\ lock = [owner |-> 0, depth |-> 0]
    /\ pool_locks = <<>>
    /\ done = <<>>

\* the dict a sequence of items builds
DictOf(items) ==
    [k \in {items[i][1] : i \in 1..Len(items)} |->
        items[CHOOSE i \in 1..Len(items) : items[i][1] = k][2]]

\* the dicts offered to from_map: items with distinct keys, listed in the
\* order of the key ids
HItems ==
    {items \in UNION {[1..n -> HKeys \X HVals] : n \in 0..(MaxKey + 1)} :
        \A i \in 1..Len(items) : \A j \in 1..Len(items) :
            i < j => IdLess(items[i][1], items[j][1])}

\* a version is added to hmaps when the call returned
AddVersion(r, m) ==
    hmaps' = IF r.err = "none" THEN Append(hmaps, [root |-> r.id, m |-> m]) ELSE hmaps

\* a call of the map runs returned r; m is the map of the version it built
Versioned(call, args, r, m) ==
    /\ AddVersion(r, m)
    /\ Record(call, OP_HAMT, args, r)

\* HAMT.empty()
HamtEmpty ==
    /\ calls = 0
    /\ Versioned("empty", <<>>, hamt_empty(Univ), EmptyMap)
    /\ UNCHANGED <<hhash, hamtIdle>>

\* Universe.from_map(dict)
FromMap(items) ==
    /\ calls = 0
    /\ Versioned("from_map", items, from_map(Univ, items), DictOf(items))
    /\ UNCHANGED <<hhash, hamtIdle>>

\* HAMT(root).put(key, value) on the version i
HamtPut(i, key, value) ==
    /\ calls < MaxMapCalls
    /\ Versioned("put", <<hmaps[i].root, key, value>>,
                 hamt_put(Univ, hmaps[i].root, key, value),
                 MapPut(hmaps[i].m, key, value))
    /\ UNCHANGED <<hhash, hamtIdle>>

HNext ==
    \/ HamtEmpty
    \/ \E items \in HItems : FromMap(items)
    \/ \E i \in 1..Len(hmaps) : \E key \in HKeys : \E value \in HVals : HamtPut(i, key, value)

HamtSpec == HInit /\ [][HNext]_vars

-----------------------------------------------------------------------------
(* Concurrent runs: threads call intern, delete, get_args and retain on a   *)
(* shared Universe.  A step is one statement of the method that reads or    *)
(* writes a shared table; the methods of MemoryPool run under the lock of   *)
(* the pool and are one step each.  intern is called with args whose        *)
(* normalization reads no slot and makes no nested intern.                  *)

\* threads of a concurrent run
NumThreads == 2
\* calls started in one concurrent run
MaxConcCalls == 3

Threads == 1..NumThreads

\* the Universe the threads start on: the symbols x and y and cons(x, y)
SymX == compute_signature(OP_SYMBOL, <<compute_signature(OP_BLOB, <<>>, 1)>>, 0)

SymY == compute_signature(OP_SYMBOL, <<compute_signature(OP_BLOB, <<>>, 2)>>, 0)

ConsXY == compute_signature(OP_CONS, <<SymX, SymY>>, 0)

ConcU0 ==
    intern(symbol_of(intern_blob(symbol_of(intern_blob(EmptyU, 1)).U, 2)).U,
           OP_CONS, <<SymX, SymY>>).U

\* ids the threads pass to delete, get_args and retain
ConcTargets == {ConsXY, SymX}

\* (op, args) the threads pass to intern
ConcInterns == {OP_CONS, OP_ADD} \X [1..2 -> {SymX, SymY}]

IdleJob == [call |-> "none", op |-> 0, args |-> <<>>]

IdleLoc == [new_op |-> 0, full_id |-> NullId, args_canonical |-> <<>>, i |-> 0,
            phys_idx |-> 0, raw_data |-> <<>>, stack |-> <<>>]

CInit ==
    /\ lookup = ConcU0.lookup
    /\ blob_lookup = ConcU0.blob_lookup
    /\ sectors = ConcU0.sectors
    /\ pc = [t \in Threads |-> "idle"]
    /\ job = [t \in Threads |-> IdleJob]
    /\ loc = [t \in Threads |-> IdleLoc]
    /\ lock = [owner |-> 0, depth |-> 0]
    /\ pool_locks = <<>>
    /\ done = {}
    /\ calls = 0
    /\ deletes = 0
    /\ uretain = EmptyMap
    /\ last = NoCall
    /\ hmaps = <<>>
    /\ hhash = EmptyMap
    /\ queues = <<>>

\* the variables the concurrent runs leave alone
concIdle == <<last, hmaps, hhash, queues, pool_locks>>

\* the call of thread t returns (or raises err); path tells how intern ended
Finish(t, j, res, err, path) ==
    /\ pc' = [pc EXCEPT ![t] = "idle"]
    /\ job' = [job EXCEPT ![t] = IdleJob]
    /\ loc' = [loc EXCEPT ![t] = IdleLoc]
    /\ done' = done \cup {[t |-> t, job |-> j, res |-> res, err |-> err, path |-> path]}

\* thread t goes on to the statement p with the locals l
Goto(t, p, l) ==
    /\ pc' = [pc EXCEPT ![t] = p]
    /\ loc' = [loc EXCEPT ![t] = l]
    /\ UNCHANGED <<job, done>>

\* RLock.acquire by thread t, enabled when the lock is free or held by t
Acquire(t) ==
    /\ lock.owner \in {0, t}
    /\ lock' = [owner |-> t, depth |-> lock.depth + 1]

\* RLock.release by thread t
Release(t) ==
    lock' = IF lock.depth = 1 THEN [owner |-> 0, depth |-> 0]
            ELSE [owner |-> t, depth |-> lock.depth - 1]

\* intern, lines 54-71: canonical order, signature and the optimistic
\* probe of _lookup, n being what normalize returned.  The calls offered
\* are those whose normalization interns nothing itself
InternProbe(t, j, n) ==
    /\ n.err = "none"
    /\ n.U = Univ
    /\ n.op \notin {OP_SCALAR, OP_HAMT}
    /\ LET args_canonical == sort_args(n.op, n.args)
           full_id == compute_signature(n.op, args_canonical, 0)
       IN IF Live(Univ, full_id)
          THEN Finish(t, j, <<full_id>>, "none", "probe_hit")
          ELSE /\ pc' = [pc EXCEPT ![t] = "intern_lock"]
               /\ job' = [job EXCEPT ![t] = j]
               /\ loc' = [loc EXCEPT ![t] = [IdleLoc EXCEPT !.new_op = n.op,
                                                           !.full_id = full_id,
                                                           !.args_canonical = args_canonical]]
               /\ done' = done

\* intern, lines 40-71: normalization, then the steps of InternProbe
StartIntern(t, op_code, args) ==
    /\ pc[t] = "idle"
    /\ calls < MaxConcCalls
    /\ \A i \in 1..Len(args) : Live(Univ, args[i])
    /\ InternProbe(t, [call |-> "intern", op |-> op_code, args |-> args],
                   normalize(Univ, op_code, args))
    /\ calls' = calls + 1
    /\ UNCHANGED <<univVars, lock, deletes, uretain, concIdle>>

\* intern, line 74: with cls._lock
InternLock(t) ==
    /\ pc[t] = "intern_lock"
    /\ Acquire(t)
    /\ Goto(t, "intern_recheck", loc[t])
    /\ UNCHANGED <<univVars, calls, deletes, uretain, concIdle>>

\* intern, lines 75-76: the re-check under the lock, then get_pool
InternRecheck(t) ==
    /\ pc[t] = "intern_recheck"
    /\ IF LockedHit(Univ, loc[t].full_id)
       THEN /\ Release(t)
            /\ Finish(t, job[t], <<loc[t].full_id>>, "none", "locked_hit")
            /\ UNCHANGED univVars
       ELSE /\ sectors' = get_pool(sectors, loc[t].new_op)
            /\ Goto(t, IF RetainedArgs(loc[t].new_op, loc[t].args_canonical) = <<>>
                       THEN "intern_alloc" ELSE "intern_retain",
                    [loc[t] EXCEPT !.i = 1])
            /\ UNCHANGED <<lookup, blob_lookup, lock>>
    /\ UNCHANGED <<calls, deletes, uretain, concIdle>>

\* intern, lines 81-98: _retain_node on the next child
InternRetain(t) ==
    /\ pc[t] = "intern_retain"
    /\ LET children == RetainedArgs(loc[t].new_op, loc[t].args_canonical)
       IN /\ SetUniv(retain_node(Univ, children[loc[t].i]))
          /\ Goto(t, IF loc[t].i = Len(children) THEN "intern_alloc" ELSE "intern_retain",
                  [loc[t] EXCEPT !.i = @ + 1])
    /\ UNCHANGED <<lock, calls, deletes, uretain, concIdle>>

\* intern, line 101: phys_idx = pool.alloc(args_canonical)
InternAlloc(t) ==
    /\ pc[t] = "intern_alloc"
    /\ LET a == pool_alloc(sectors[loc[t].new_op], loc[t].args_canonical)
       IN /\ sectors' = [sectors EXCEPT ![loc[t].new_op] = a.pool]
          /\ Goto(t, "intern_publish", [loc[t] EXCEPT !.phys_idx = a.idx])
    /\ UNCHANGED <<lookup, blob_lookup, lock, calls, deletes, uretain, concIdle>>

\* intern, lines 102-104: the id is published, the lock released
InternPublish(t) ==
    /\ pc[t] = "intern_publish"
    /\ lookup' = MapPut(lookup, loc[t].full_id, loc[t].phys_idx)
    /\ Release(t)
    /\ Finish(t, job[t], <<loc[t].full_id>>, "none", "alloc")
    /\ UNCHANGED <<blob_lookup, sectors, calls, deletes, uretain, concIdle>>

\* delete(uid) is called: the cascade is a stack of the ids still to delete,
\* the id whose delete is running first
StartDelete(t, uid) ==
    /\ pc[t] = "idle"
    /\ calls < MaxConcCalls
    /\ pc' = [pc EXCEPT ![t] = "delete_check"]
    /\ job' = [job EXCEPT ![t] = [call |-> "delete", op |-> get_op(uid), args |-> <<uid>>]]
    /\ loc' = [loc EXCEPT ![t] = [IdleLoc EXCEPT !.stack = <<uid>>]]
    /\ calls' = calls + 1
    /\ deletes' = deletes + 1
    /\ UNCHANGED <<univVars, lock, done, uretain, concIdle>>

\* the delete of the first id of the stack returns: the cascade goes on with
\* the next id, or the call returns
Return(t) ==
    IF Tail(loc[t].stack) = <<>>
    THEN Finish(t, job[t], <<>>, "none", "none")
    ELSE Goto(t, "delete_check", [IdleLoc EXCEPT !.stack = Tail(loc[t].stack)])

\* delete, line 283: if uid not in cls._lookup: return
DeleteCheck(t) ==
    /\ pc[t] = "delete_check"
    /\ IF Live(Univ, Head(loc[t].stack))
       THEN Goto(t, "delete_decode", loc[t])
       ELSE Return(t)
    /\ UNCHANGED <<univVars, lock, calls, deletes, uretain, concIdle>>

\* delete, line 284: _decode_id raises ValueError for an id no longer in
\* _lookup, which ends the whole call
DeleteDecode(t) ==
    /\ pc[t] = "delete_decode"
    /\ IF Live(Univ, Head(loc[t].stack))
       THEN Goto(t, "delete_get", [loc[t] EXCEPT !.phys_idx = lookup[Head(loc[t].stack)]])
       ELSE Finish(t, job[t], <<>>, "ValueError", "none")
    /\ UNCHANGED <<univVars, lock, calls, deletes, uretain, concIdle>>

\* delete, lines 285-287: raw_data = pool.get(phys_idx); return if None
DeleteGet(t) ==
    /\ pc[t] = "delete_get"
    /\ LET raw_data == pool_get(sectors[get_op(Head(loc[t].stack))], loc[t].phys_idx)
       IN IF raw_data = NoneData THEN Return(t)
          ELSE Goto(t, "delete_release", [loc[t] EXCEPT !.raw_data = raw_data])
    /\ UNCHANGED <<univVars, lock, calls, deletes, uretain, concIdle>>

\* delete, lines 289-291: is_dead = pool.release(phys_idx)
DeleteRelease(t) ==
    /\ pc[t] = "delete_release"
    /\ LET op_code == get_op(Head(loc[t].stack))
           r == pool_release(sectors[op_code], loc[t].phys_idx)
       IN /\ sectors' = [sectors EXCEPT ![op_code] = r.pool]
          /\ IF r.dead THEN Goto(t, "delete_lock", loc[t]) ELSE Return(t)
    /\ UNCHANGED <<lookup, blob_lookup, lock, calls, deletes, uretain, concIdle>>

\* delete, line 292: with cls._lock
DeleteLock(t) ==
    /\ pc[t] = "delete_lock"
    /\ Acquire(t)
    /\ Goto(t, "delete_unpublish", loc[t])
    /\ UNCHANGED <<univVars, calls, deletes, uretain, concIdle>>

\* delete, lines 293-312: the rows are removed and the lock released; the
\* children are then deleted in turn, before what was left of the cascade
DeleteUnpublish(t) ==
    /\ pc[t] = "delete_unpublish"
    /\ LET uid == Head(loc[t].stack)
           op_code == get_op(uid)
           raw_data == loc[t].raw_data
           stack == RetainedArgs(op_code, raw_data) \o Tail(loc[t].stack)
       IN /\ lookup' = IF Live(Univ, uid) THEN MapRemove(lookup, uid) ELSE lookup
          /\ blob_lookup' = IF /\ Live(Univ, uid)
                               /\ op_code = OP_BLOB
                               /\ raw_data[2].pl \in DOMAIN blob_lookup
                            THEN MapRemove(blob_lookup, raw_data[2].pl)
                            ELSE blob_lookup
          /\ Release(t)
          /\ IF stack = <<>>
             THEN Finish(t, job[t], <<>>, "none", "none")
             ELSE Goto(t, "delete_check", [IdleLoc EXCEPT !.stack = stack])
    /\ UNCHANGED <<sectors, calls, deletes, uretain, concIdle>>

\* get_args, lines 344-345: the membership test
StartGetArgs(t, uid) ==
    /\ pc[t] = "idle"
    /\ calls < MaxConcCalls
    /\ LET j == [call |-> "get_args", op |-> get_op(uid), args |-> <<uid>>]
       IN IF Live(Univ, uid)
          THEN /\ pc' = [pc EXCEPT ![t] = "get_index"]
               /\ job' = [job EXCEPT ![t] = j]
               /\ UNCHANGED <<loc, done>>
          ELSE Finish(t, j, <<>>, "ValueError", "none")
    /\ calls' = calls + 1
    /\ UNCHANGED <<univVars, lock, deletes, uretain, concIdle>>

\* get_args, line 346: phys_idx = cls._lookup[uid]
GetIndex(t) ==
    /\ pc[t] = "get_index"
    /\ IF Live(Univ, job[t].args[1])
       THEN Goto(t, "get_read", [loc[t] EXCEPT !.phys_idx = lookup[job[t].args[1]]])
       ELSE Finish(t, job[t], <<>>, "KeyError", "none")
    /\ UNCHANGED <<univVars, lock, calls, deletes, uretain, concIdle>>

\* get_args, lines 347-351: data = pool.get(phys_idx), returned as it is
\* (for a blob, data[1], a TypeError when data is None)
GetRead(t) ==
    /\ pc[t] = "get_read"
    /\ LET data == pool_get(sectors[job[t].op], loc[t].phys_idx)
       IN IF job[t].op = OP_BLOB
          THEN IF data = NoneData THEN Finish(t, job[t], <<>>, "TypeError", "none")
               ELSE Finish(t, job[t], <<data[2]>>, "none", "none")
          ELSE Finish(t, job[t], data, "none", "none")
    /\ UNCHANGED <<univVars, lock, calls, deletes, uretain, concIdle>>

\* retain -> _retain_node, line 320: the membership test
StartRetain(t, uid) ==
    /\ pc[t] = "idle"
    /\ calls < MaxConcCalls
    /\ LET j == [call |-> "retain", op |-> get_op(uid), args |-> <<uid>>]
       IN IF Live(Univ, uid)
          THEN /\ pc' = [pc EXCEPT ![t] = "retain_index"]
               /\ job' = [job EXCEPT ![t] = j]
               /\ UNCHANGED <<loc, done>>
          ELSE Finish(t, j, <<>>, "none", "none")
    /\ calls' = calls + 1
    /\ uretain' = MapPut(uretain, uid, IF uid \in DOMAIN uretain THEN uretain[uid] + 1 ELSE 1)
    /\ UNCHANGED <<univVars, lock, deletes, concIdle>>

\* _retain_node, lines 321-322: phys_idx = cls._lookup[uid]
RetainIndex(t) ==
    /\ pc[t] = "retain_index"
    /\ IF Live(Univ, job[t].args[1])
       THEN Goto(t, "retain_pool", [loc[t] EXCEPT !.phys_idx = lookup[job[t].args[1]]])
       ELSE Finish(t, job[t], <<>>, "KeyError", "none")
    /\ UNCHANGED <<univVars, lock, calls, deletes, uretain, concIdle>>

\* _retain_node, lines 323-324: pool.retain(phys_idx)
RetainPool(t) ==
    /\ pc[t] = "retain_pool"
    /\ sectors' = [sectors EXCEPT ![job[t].op] = pool_retain(@, loc[t].phys_idx)]
    /\ Finish(t, job[t], <<>>, "none", "none")
    /\ UNCHANGED <<lookup, blob_lookup, lock, calls, deletes, uretain, concIdle>>

CNext ==
    \E t \in Threads :
        \/ \E c \in ConcInterns : StartIntern(t, c[1], c[2])
        \/ InternLock(t)
        \/ InternRecheck(t)
        \/ InternRetain(t)
        \/ InternAlloc(t)
        \/ InternPublish(t)
        \/ \E uid \in ConcTargets : StartDelete(t, uid)
        \/ DeleteCheck(t)
        \/ DeleteDecode(t)
        \/ DeleteGet(t)
        \/ DeleteRelease(t)
        \/ DeleteLock(t)
        \/ DeleteUnpublish(t)
        \/ \E uid \in ConcTargets : StartGetArgs(t, uid)
        \/ GetIndex(t)
        \/ GetRead(t)
        \/ \E uid \in ConcTargets : StartRetain(t, uid)
        \/ RetainIndex(t)
        \/ RetainPool(t)

ConcSpec == CInit /\ [][CNext]_vars

-----------------------------------------------------------------------------
(* Graph of the live nodes *)

SeqToSet(s) == {s[i] : i \in 1..Len(s)}

\* the ids a live node retains under the ownership rules, read from its slot
ChildrenOf(U, uid) == SeqToSet(RetainedArgs(get_op(uid), SlotData(U, uid)))

\* the live nodes that retain uid
Parents(U, uid) == {p \in DOMAIN U.lookup : uid \in ChildrenOf(U, p)}

RECURSIVE Owned(_, _)
\* root and every live node it transitively retains
Owned(U, root) ==
    IF ~Live(U, root) THEN {}
    ELSE {root} \cup UNION {Owned(U, c) : c \in ChildrenOf(U, root)}

\* the slot index is on the free list of the sector of op_code
IsFree(U, op_code, idx) ==
    \E i \in 1..Len(U.sectors[op_code].free_list) : U.sectors[op_code].free_list[i] = idx

-----------------------------------------------------------------------------
(* Claims *)

\* C1: calling intern(op, args) again right after it returned gives the
\* same id and leaves lookup, blob_lookup and every sector (slots, reference
\* counts, free lists) as they were.
C1_InternTwice ==
    (last.call = "intern" /\ last.err = "none")
        => intern(Univ, last.op, last.args) = Ok(Univ, last.id)

\* C1 witness: the first call materialized a new composite node
C1_Witness ==
    /\ last.call = "intern"
    /\ last.fresh
    /\ Len(last.args) >= 2
    /\ intern(Univ, last.op, last.args) = Ok(Univ, last.id)

Permute(args, p) == [i \in 1..Len(args) |-> args[p[i]]]

\* C2: for a commutative operator, interning any permutation of the args
\* returns the id that intern returned for the args.
C2_CommutativePermutation ==
    (last.call = "intern" /\ last.err = "none" /\ "COMMUTATIVE" \in get_traits(last.op))
        => \A p \in Permutations(1..Len(last.args)) :
              LET r == intern(Univ, last.op, Permute(last.args, p)) IN
              r.err = "none" /\ r.id = last.id

\* C2 witness: an add or mul node was built from three args that hold a
\* duplicate and are not in canonical order
C2_Witness ==
    /\ last.call = "intern"
    /\ last.err = "none"
    /\ last.op \in {OP_ADD, OP_MUL}
    /\ get_op(last.id) = last.op
    /\ Len(last.args) = 3
    /\ Cardinality(SeqToSet(last.args)) = 2
    /\ last.args # Sorted(last.args)
    /\ \A p \in Permutations(1..3) : intern(Univ, last.op, Permute(last.args, p)).id = last.id

\* C3: for all live a, b, c, intern(add, [intern(add, [a, b]), c]) returns
\* the id of intern(add, [a, b, c]).
C3_AssociativeFlattening ==
    \A a \in DOMAIN lookup : \A b \in DOMAIN lookup : \A c \in DOMAIN lookup :
        LET ab == intern(Univ, OP_ADD, <<a, b>>)
            nested == intern(ab.U, OP_ADD, <<ab.id, c>>)
            flat == intern(Univ, OP_ADD, <<a, b, c>>)
        IN (ab.err = "none" /\ nested.err = "none" /\ flat.err = "none")
              => nested.id = flat.id

\* C4: with no retain and no delete made so far, delete(root) on an
\* expression nothing else refers into removes every node the root
\* transitively owns from lookup and puts its slot on the free list.
C4_GCClosure ==
    (deletes = 0 /\ uretain = EmptyMap)
        => \A root \in DOMAIN lookup :
              LET own == Owned(Univ, root)
                  after == delete(Univ, root).U
              IN (\A n \in own : Parents(Univ, n) \subseteq own)
                    => \A n \in own :
                          /\ n \notin DOMAIN after.lookup
                          /\ IsFree(after, get_op(n), lookup[n])

\* C5: for every non-empty dict M over live key and value ids, from_map(M)
\* followed by delete of the id it returned leaves lookup with exactly the
\* rows it had before from_map.
C5_FromMapDeleteRestoresLookup ==
    \A items \in HItems \ {<<>>} :
        LET f == from_map(Univ, items)
            d == delete(f.U, f.id)
        IN f.err = "none" => d.U.lookup = lookup

\* C6: get(k) on every version built so far returns the value the history
\* of that version gives to k (its last put, or the entry of the dict it
\* started from) and None for a key the history never inserted, whatever
\* was put afterwards to derive other versions.
C6_VersionIsMapOfItsHistory ==
    \A i \in 1..Len(hmaps) : \A k \in HKeys :
        hamt_get(Univ, hmaps[i].root, k)
            = Found(IF k \in DOMAIN hmaps[i].m THEN hmaps[i].m[k] ELSE NullId)

\* C6 witness: a version from from_map and two versions derived by put,
\* one of which overwrote a key and one of which added a key whose
\* projection shares its first chunk with a key already there; every get
\* agrees with the history
C6_Witness ==
    /\ Len(hmaps) = 3
    /\ DOMAIN hmaps[1].m # {}
    /\ \E i \in 2..3 : \E j \in 1..(i - 1) : \E k \in DOMAIN hmaps[j].m :
           /\ DOMAIN hmaps[i].m = DOMAIN hmaps[j].m
           /\ hmaps[i].m[k] # hmaps[j].m[k]
    /\ \E i \in 2..3 : \E j \in 1..(i - 1) : \E k \in DOMAIN hmaps[i].m \ DOMAIN hmaps[j].m :
           \E k2 \in DOMAIN hmaps[j].m : hhash[k][1] = hhash[k2][1] /\ hhash[k] # hhash[k2]
    /\ hmaps[1].root # hmaps[2].root
    /\ hmaps[2].root # hmaps[3].root
    /\ C6_VersionIsMapOfItsHistory

\* the finished intern calls of a concurrent run
InternDone == {d \in done : d.job.call = "intern"}

\* the ids that interns of a concurrent run returned and that were not live
\* when the run started
NewIds == {d.res[1] : d \in InternDone} \ DOMAIN ConcU0.lookup

\* the slots of the sector of uid that hold the args of uid
SlotsOf(U, uid) ==
    {idx \in 0..(Len(U.sectors[get_op(uid)].data) - 1) :
        pool_get(U.sectors[get_op(uid)], idx) = uid.ch}

\* the retained cells of the nodes in ids that hold c: pairs (node, cell)
RetainsOn(ids, c) ==
    {pr \in ids \X (1..MaxArgs) :
        /\ pr[2] <= Len(RetainedArgs(get_op(pr[1]), pr[1].ch))
        /\ RetainedArgs(get_op(pr[1]), pr[1].ch)[pr[2]] = c}

\* C7: in a run of concurrent interns (no delete, no retain), calls with the
\* same (op, args) return the same id, and once every call has returned
\* each id that was not live before has one row in lookup and one slot, and
\* every node live before has been retained once for each cell of a new
\* node that holds it.
C7_ConcurrentInternOnce ==
    (deletes = 0 /\ uretain = EmptyMap)
        => /\ \A d1 \in InternDone : \A d2 \in InternDone :
                  d1.job = d2.job => (d1.err = "none" /\ d1.res = d2.res)
           /\ (\A t \in Threads : pc[t] = "idle")
                  => /\ \A n \in NewIds :
                            /\ Live(Univ, n)
                            /\ SlotsOf(Univ, n) = {lookup[n]}
                     /\ \A c \in DOMAIN ConcU0.lookup :
                            /\ Live(Univ, c)
                            /\ RefCount(Univ, c)
                                  = RefCount(ConcU0, c) + Cardinality(RetainsOn(NewIds, c))

\* C7 witness: two threads interned the same (op, args) that was not live;
\* both passed the optimistic probe, one materialized the node and the
\* other found it in the re-check under the lock
C7_Witness ==
    /\ deletes = 0
    /\ uretain = EmptyMap
    /\ \A t \in Threads : pc[t] = "idle"
    /\ \E d1 \in InternDone : \E d2 \in InternDone :
           /\ d1.t # d2.t
           /\ d1.job = d2.job
           /\ d1.path = "alloc"
           /\ d2.path = "locked_hit"
           /\ d1.res = d2.res
           /\ d1.res[1] \in NewIds
           /\ SlotsOf(Univ, d1.res[1]) = {lookup[d1.res[1]]}

\* the args (or payload) a node was created with, read from its id
CreatedArgs(uid) ==
    IF get_op(uid) \in {OP_SCALAR, OP_BLOB} THEN <<Raw(uid.pl)>>
    ELSE IF get_op(uid) = OP_HAMT THEN <<Raw(uid.pl)>> \o uid.ch
    ELSE uid.ch

\* C8: a get_args(id) that ran concurrently with interns and deletes of
\* other threads either returned the args the node id was created with or
\* raised; it never returned a cleared slot or the args of another node.
C8_GetArgsCreatedOrError ==
    \A d \in done :
        (d.job.call = "get_args" /\ d.err = "none")
            => d.res = CreatedArgs(d.job.args[1])

\* C9: the reference count of every live node is the number of distinct
\* live parents that retain it plus its explicit retains not undone by a
\* delete.
C9_RefCountIsParentsPlusRetains ==
    \A n \in DOMAIN lookup :
        RefCount(Univ, n) = Cardinality(Parents(Univ, n))
                            + (IF n \in DOMAIN uretain THEN uretain[n] ELSE 0)

\* C10: every step of a thread that changes lookup, blob_lookup or a sector
\* is taken while that thread holds the lock of the Universe.
C10_MutationUnderLock ==
    [][\A t \in Threads :
          ((pc'[t] # pc[t] \/ loc'[t] # loc[t]) /\ univVars' # univVars)
              => lock.owner = t]_vars

\* C11: after m2 = m1.put(k, v), delete(m1.uid) leaves every node reachable
\* from m2 in lookup and every m2.get as it was before the delete.
C11_SharedNodesSurviveDelete ==
    (last.call = "put" /\ last.err = "none")
        => LET after == delete(Univ, last.args[1]).U IN
           /\ \A n \in Owned(Univ, last.id) : Live(after, n)
           /\ \A k \in HKeys : hamt_get(after, last.id, k) = hamt_get(Univ, last.id, k)

\* the ids a live node retains, with their multiplicity
RetainedOf(U, uid) == RetainedArgs(get_op(uid), SlotData(U, uid))

IsScalarId(uid) == get_op(uid) = OP_SCALAR

NotScalarId(uid) == get_op(uid) # OP_SCALAR

\* C13: intern of add or mul folds the scalars among the flattened args:
\* a scalar 0 under mul gives the id of scalar 0; otherwise, when there is a
\* scalar, the result is the scalar of the sum (product) if no other arg
\* remains, and else the id of the same operator over that one scalar
\* (left out when it is the identity) and the other args, whose node, when
\* it has the operator of the call, holds no other scalar.
C13_FoldsScalars ==
    (last.call = "intern" /\ last.err = "none" /\ last.op \in {OP_ADD, OP_MUL})
        => LET flat == flatten(Univ, last.op, last.args).args
               scalars == SelectSeq(flat, IsScalarId)
               vals == [i \in 1..Len(scalars) |-> ScalarValue(Univ, scalars[i])]
               symbolic == SelectSeq(flat, NotScalarId)
               identity == IF last.op = OP_ADD THEN 0 ELSE 1
               acc == IF last.op = OP_ADD THEN SumSeq(vals) ELSE ProdSeq(vals)
               kept == IF acc = identity THEN <<>> ELSE <<compute_scalar_signature(acc)>>
           IN IF last.op = OP_MUL /\ \E i \in 1..Len(vals) : vals[i] = 0
              THEN last.id = compute_scalar_signature(0)
              ELSE IF scalars = <<>> THEN TRUE
              ELSE IF symbolic = <<>> THEN last.id = compute_scalar_signature(acc)
              ELSE /\ last.id = intern(intern_val(Univ, acc).U, last.op, kept \o symbolic).id
                   /\ get_op(last.id) = last.op
                         => SelectSeq(SlotData(Univ, last.id), IsScalarId) = kept

\* C13 witness: the last call was add or mul over two scalars and another
\* arg; the node it returned has the operator of the call and holds the one
\* scalar of the sum (product) and the other arg
C13_Witness ==
    /\ last.call = "intern"
    /\ last.err = "none"
    /\ last.op \in {OP_ADD, OP_MUL}
    /\ Len(SelectSeq(last.args, IsScalarId)) = 2
    /\ Len(SelectSeq(last.args, NotScalarId)) = 1
    /\ get_op(last.id) = last.op
    /\ LET vals == [i \in 1..2 |-> ScalarValue(Univ, SelectSeq(last.args, IsScalarId)[i])]
           acc == IF last.op = OP_ADD THEN SumSeq(vals) ELSE ProdSeq(vals)
       IN SlotData(Univ, last.id)
              = Sorted(<<compute_scalar_signature(acc)>> \o SelectSeq(last.args, NotScalarId))

\* the term that grouping puts for t occurring n times in the args of
\* op_code: t itself, or the id of mul(n, t) for add and of pow(t, n) for mul
GroupedTerm(U, op_code, t, n) ==
    IF n = 1 THEN t
    ELSE intern(intern_val(U, n).U,
                IF op_code = OP_ADD THEN OP_MUL ELSE OP_POW,
                IF op_code = OP_ADD THEN <<compute_scalar_signature(n), t>>
                ELSE <<t, compute_scalar_signature(n)>>).id

\* the symbols in lookup
LiveSymbols == {n \in DOMAIN lookup : get_op(n) = OP_SYMBOL}

\* C14: when the flattened and folded args of an add or mul hold a term
\* more than once, the result is built from one grouped term for each
\* distinct term (mul(n, t) under add, pow(t, n) under mul, t itself when it
\* occurs once): it is that term when there is only one, and else the node
\* of the same operator over the grouped terms; and for symbols x, y,
\* add(x, x, x, y) is add(mul(3, x), y).
C14_GroupsLikeTerms ==
    /\ (last.call = "intern" /\ last.err = "none" /\ last.op \in {OP_ADD, OP_MUL})
          => LET fo == fold_scalars(Univ, last.op, flatten(Univ, last.op, last.args).args)
                 keys == DistinctInOrder(fo.args)
                 terms == [i \in 1..Len(keys) |->
                              GroupedTerm(Univ, last.op, keys[i], CountOf(fo.args, keys[i]))]
             IN (fo.op = 0 /\ Len(keys) < Len(fo.args))
                   => IF Len(terms) = 1 THEN last.id = terms[1]
                      ELSE /\ get_op(last.id) = last.op
                           /\ SlotData(Univ, last.id) = Sorted(terms)
    /\ \A x \in LiveSymbols : \A y \in LiveSymbols \ {x} :
          LET m == intern(intern_val(Univ, 3).U, OP_MUL, <<compute_scalar_signature(3), x>>)
          IN intern(Univ, OP_ADD, <<x, x, x, y>>).id = intern(m.U, OP_ADD, <<m.id, y>>).id

\* C14 witness: the last call was add or mul over a term given twice and
\* another term; the node it returned has the operator of the call and holds
\* the grouped term and the other term
C14_Witness ==
    /\ last.call = "intern"
    /\ last.err = "none"
    /\ last.op \in {OP_ADD, OP_MUL}
    /\ Len(last.args) = 3
    /\ \A i \in 1..3 : get_op(last.args[i]) \notin {OP_SCALAR, last.op}
    /\ get_op(last.id) = last.op
    /\ \E t \in SeqToSet(last.args) : \E u \in SeqToSet(last.args) :
          /\ CountOf(last.args, t) = 2
          /\ CountOf(last.args, u) = 1
          /\ get_op(GroupedTerm(Univ, last.op, t, 2)) = (IF last.op = OP_ADD THEN OP_MUL ELSE OP_POW)
          /\ SlotData(Univ, last.id) = Sorted(<<GroupedTerm(Univ, last.op, t, 2), u>>)

\* C15: for all live x, a, b such that intern(pow, (x, a)) is a pow node
\* with args (x, a), intern(pow, (intern(pow, (x, a)), b)) returns the id of
\* intern(pow, (x, intern(mul, (a, b)))).
C15_NestedPower ==
    \A x \in DOMAIN lookup : \A a \in DOMAIN lookup : \A b \in DOMAIN lookup :
        LET p == intern(Univ, OP_POW, <<x, a>>)
            nested == intern(p.U, OP_POW, <<p.id, b>>)
            m == intern(p.U, OP_MUL, <<a, b>>)
            flat == intern(m.U, OP_POW, <<x, m.id>>)
        IN (/\ p.err = "none"
            /\ get_op(p.id) = OP_POW
            /\ get_args(p.U, p.id) = [args |-> <<x, a>>, err |-> "none"]
            /\ nested.err = "none"
            /\ m.err = "none"
            /\ flat.err = "none")
              => nested.id = flat.id

\* C16: for every live id x, intern(dual, (intern(dual, (x,)),)) returns x.
C16_DualInvolution ==
    \A x \in DOMAIN lookup :
        LET d == intern(Univ, OP_DUAL, <<x>>)
            dd == intern(d.U, OP_DUAL, <<d.id>>)
        IN d.err = "none" /\ dd.err = "none" /\ dd.id = x

RECURSIVE DualEach(_, _, _)
\* intern(dual, (c,)) on each component in turn: the tables it leaves and
\* the ids it returned (NullId for a call that raised)
DualEach(U, comps, ids) ==
    IF comps = <<>> THEN [U |-> U, ids |-> ids]
    ELSE DualEach(intern(U, OP_DUAL, <<Head(comps)>>).U, Tail(comps),
                  Append(ids, intern(U, OP_DUAL, <<Head(comps)>>).id))

\* C17: for every live tensor node t with components c1..cn,
\* intern(dual, (t,)) returns the id of the tensor over intern(dual, (c1,)),
\* .., intern(dual, (cn,)) in this order; and for symbols a, b,
\* dual(tensor(dual(a), b)) is tensor(a, dual(b)).
C17_DualOverTensor ==
    /\ \A t \in DOMAIN lookup :
          get_op(t) = OP_TENSOR
             => LET de == DualEach(Univ, SlotData(Univ, t), <<>>)
                    whole == intern(Univ, OP_DUAL, <<t>>)
                    parts == intern(de.U, OP_TENSOR, de.ids)
                IN /\ whole.err = "none"
                   /\ parts.err = "none"
                   /\ whole.id = parts.id
                   /\ get_op(whole.id) = OP_TENSOR
                   /\ SlotData(whole.U, whole.id) = de.ids
    /\ \A a \in LiveSymbols : \A b \in LiveSymbols :
          LET da == intern(Univ, OP_DUAL, <<a>>)
              t == intern(da.U, OP_TENSOR, <<da.id, b>>)
              whole == intern(t.U, OP_DUAL, <<t.id>>)
              db == intern(t.U, OP_DUAL, <<b>>)
              expected == intern(db.U, OP_TENSOR, <<a, db.id>>)
          IN whole.err = "none" /\ whole.id = expected.id

\* C17 witness: the last call was dual of a live tensor of two different
\* components; it returned the tensor of their duals in the same order
C17_Witness ==
    /\ last.call = "intern"
    /\ last.err = "none"
    /\ last.op = OP_DUAL
    /\ get_op(last.args[1]) = OP_TENSOR
    /\ Live(Univ, last.args[1])
    /\ get_op(last.id) = OP_TENSOR
    /\ LET comps == SlotData(Univ, last.args[1]) IN
       /\ Len(comps) = 2
       /\ comps[1] # comps[2]
       /\ SlotData(Univ, last.id) = DualEach(Univ, comps, <<>>).ids
       /\ SlotData(Univ, last.id)[1] # SlotData(Univ, last.id)[2]

\* the associative operators
AssociativeOps == {op_code \in SeqOps : "ASSOCIATIVE" \in get_traits(op_code)}

\* C18: for every associative operator op and every live id x,
\* intern(op, (x,)) returns x and leaves lookup and the sectors as they were.
C18_UnaryDegeneration ==
    \A op_code \in AssociativeOps : \A x \in DOMAIN lookup :
        intern(Univ, op_code, <<x>>) = Ok(Univ, x)

\* C19: for every live id x, intern(pow, (x, scalar 0)) returns the id of
\* scalar 1 and intern(pow, (x, scalar 1)) returns x.
C19_PowerIdentities ==
    \A x \in DOMAIN lookup :
        LET zero == intern_val(Univ, 0)
            one == intern_val(zero.U, 1)
            p0 == intern(one.U, OP_POW, <<x, zero.id>>)
            p1 == intern(one.U, OP_POW, <<x, one.id>>)
        IN /\ p0.err = "none"
           /\ p0.id = compute_scalar_signature(1)
           /\ p1.err = "none"
           /\ p1.id = x

\* C20: every id n that intern returned for a non-primitive operator is in
\* normal form: intern(get_op(n), get_args(n)) returns n.
C20_NormalFormFixpoint ==
    (last.call = "intern" /\ last.err = "none" /\ last.op \in SeqOps)
        => LET a == get_args(Univ, last.id)
               again == intern(Univ, get_op(last.id), a.args)
           IN a.err = "none" /\ again.err = "none" /\ again.id = last.id

\* C21: intern(add, ()) returns the id of scalar 0, intern(mul, ()) returns
\* the id of scalar 1, and neither call leaves an add or mul node with no
\* args in lookup.
C21_EmptyAssociative ==
    LET sum == intern(Univ, OP_ADD, <<>>)
        product == intern(Univ, OP_MUL, <<>>)
    IN /\ sum.err = "none"
       /\ sum.id = compute_scalar_signature(0)
       /\ product.err = "none"
       /\ product.id = compute_scalar_signature(1)
       /\ \A n \in DOMAIN sum.U.lookup \cup DOMAIN product.U.lookup :
             get_op(n) \in {OP_ADD, OP_MUL} => n.ch # <<>>

-----------------------------------------------------------------------------
(* Sequential runs over the whole interface: besides the calls of the      *)
(* sequential runs, the caller calls intern_blob and intern_batch, and      *)
(* passes to get_args, retain and delete an id it holds from its last call, *)
(* whether or not that id is still in lookup.                               *)

\* the ids the caller holds from its last call: the id the call was about
\* and the values it passed (a plain integer such as 1 is an id that was
\* never interned)
Held ==
    ({last.id} \cup SeqToSet(IF last.call = "intern_batch" THEN Concat(last.args)
                             ELSE last.args)) \ {NullId}

\* Universe.get_args as a call: [U, id, err].  The raise comes before the
\* sector manager is asked for the pool
get_args_call(U, uid) ==
    [U |-> IF Live(U, uid) THEN [U EXCEPT !.sectors = get_pool(U.sectors, get_op(uid))] ELSE U,
     id |-> uid,
     err |-> get_args(U, uid).err]

\* Universe.get_args(uid)
GetArgs(uid) ==
    /\ calls < MaxCalls
    /\ Returned("get_args", get_op(uid), <<uid>>, get_args_call(Univ, uid))
    /\ UNCHANGED <<uretain, deletes, otherVars>>

\* Universe.retain(uid) on an id that is not in lookup
RetainAbsent(uid) ==
    /\ ~Live(Univ, uid)
    /\ Retain(uid)

\* Universe.delete(uid) on an id that is not in lookup
DeleteAbsent(uid) ==
    /\ ~Live(Univ, uid)
    /\ Delete(uid)

\* largest batch offered to intern_batch
MaxBatch == 3

\* the batches offered: up to MaxBatch one-element tuples over the held ids
Batches == UNION {[1..n -> {<<uid>> : uid \in Held}] : n \in 0..MaxBatch}

\* the result of intern_batch as a call record
batch_result(b) == [U |-> b.U, id |-> NullId, err |-> b.err]

\* Universe.intern_batch(op_code, list_of_args)
InternBatch(op_code, list_of_args) ==
    /\ calls < MaxCalls
    /\ Returned("intern_batch", op_code, list_of_args,
                batch_result(intern_batch(Univ, op_code, list_of_args)))
    /\ UNCHANGED <<uretain, deletes, otherVars>>

\* Universe.intern_blob(data)
InternBlob(name) ==
    /\ calls < MaxCalls
    /\ Returned("intern_blob", OP_BLOB, <<Raw(name)>>, intern_blob(Univ, name))
    /\ UNCHANGED <<uretain, deletes, otherVars>>

ApiNext ==
    \/ Next
    \/ \E name \in 1..MaxNames : InternBlob(name)
    \/ \E list_of_args \in Batches : InternBatch(OP_DUAL, list_of_args)
    \/ \E uid \in Held : GetArgs(uid)
    \/ \E uid \in Held : RetainAbsent(uid)
    \/ \E uid \in Held : DeleteAbsent(uid)

ApiSpec == Init /\ [][ApiNext]_vars

\* C22: get_args on an id that is not in lookup, never interned or
\* reclaimed by a delete, ends with the ValueError of a node that is not
\* live, and leaves lookup, blob_lookup and the sectors as they were.
C22_GetArgsNotLive ==
    [][(last'.call = "get_args" /\ ~Live(Univ, last'.id))
          => (last'.err = "ValueError" /\ Univ' = Univ)]_vars

\* C22 witness: get_args was called on the id of a scalar that a delete
\* had reclaimed
C22_Witness ==
    /\ last.call = "get_args"
    /\ last.err = "ValueError"
    /\ get_op(last.id) = OP_SCALAR
    /\ deletes > 0

\* C23: delete on an id that is not in lookup, never interned or already
\* reclaimed, ends with the same ValueError as get_args and leaves lookup,
\* blob_lookup and the sectors as they were; it does not return silently.
C23_DeleteNotLive ==
    [][(last'.call = "delete" /\ ~Live(Univ, last'.id))
          => (last'.err = "ValueError" /\ Univ' = Univ)]_vars

\* the malformed constructions: a scalar operator with no arg or with two
\* args, a HAMT operator with no args
Malformed ==
    {<<OP_SCALAR, <<>>>>, <<OP_SCALAR, <<Raw(1), Raw(2)>>>>, <<OP_HAMT, <<>>>>}

\* C24: intern and intern_batch end with an error on a scalar operator
\* whose args tuple has not exactly one element and on a HAMT operator with
\* empty args, and leave lookup, blob_lookup and the sectors as they were
\* (no slot allocated, no child retained, no row added).
C24_MalformedRejected ==
    \A c \in Malformed :
        /\ intern(Univ, c[1], c[2]).err # "none"
        /\ intern(Univ, c[1], c[2]).U = Univ
        /\ intern_batch(Univ, c[1], <<c[2]>>).err # "none"
        /\ intern_batch(Univ, c[1], <<c[2]>>).U = Univ

\* the half of C24 that is about intern alone
C24_InternRejects ==
    \A c \in Malformed :
        /\ intern(Univ, c[1], c[2]).err = "ValueError"
        /\ intern(Univ, c[1], c[2]).U = Univ

\* a batch of n args tuples, each different from the others
BatchOf(n) == [i \in 1..n |-> <<Raw(i)>>]

\* alloc_batch returned r on the pool p: no error, one index for each tuple,
\* the indices differ from each other, none held a slot in use in p, and
\* each slot has the count 1 and the args of its tuple
BatchReserved(p, batch_args, r) ==
    /\ r.err = "none"
    /\ Len(r.indices) = Len(batch_args)
    /\ \A i \in 1..Len(r.indices) : \A j \in 1..Len(r.indices) :
          i # j => r.indices[i] # r.indices[j]
    /\ \A k \in 1..Len(r.indices) :
          /\ r.indices[k] < p.capacity
                => /\ p.ref_counts[r.indices[k] + 1] = 0
                   /\ p.data[r.indices[k] + 1] = NoneData
          /\ r.pool.ref_counts[r.indices[k] + 1] = 1
          /\ r.pool.data[r.indices[k] + 1] = batch_args[k]

BatchShapes(op_code) ==
    IF op_code = OP_SYMBOL THEN {<<c>> : c \in {b \in DOMAIN lookup : get_op(b) = OP_BLOB}}
    ELSE IF op_code = OP_HAMT THEN {<<Raw(1), c>> : c \in DOMAIN lookup}
    ELSE TuplesOf(DOMAIN lookup, 2)

\* the ref counts of the ids live in U are the same in the tables V
SameCounts(U, V) ==
    \A c \in DOMAIN U.lookup : Live(V, c) /\ RefCount(V, c) = RefCount(U, c)

\* C26: a node that intern_batch materializes retains the children that
\* intern retains for the same operator and args (HAMT: args[1..]; KV: key
\* and value; symbol: the name blob; other composites: every arg), each
\* once, so that deleting the node afterwards leaves every id that was live
\* before the batch live and with the count it had.
C26_BatchOwnership ==
    \A op_code \in {OP_HAMT, OP_KV, OP_SYMBOL, OP_CONS} :
        \A args \in BatchShapes(op_code) :
            ~Live(Univ, batch_id(op_code, args))
                => /\ SameCounts(intern(Univ, op_code, args).U,
                                 intern_batch(Univ, op_code, <<args>>).U)
                   /\ SameCounts(Univ, delete(intern_batch(Univ, op_code, <<args>>).U,
                                              batch_id(op_code, args)).U)

\* C27: in every state reached by intern, intern_batch, retain and delete
\* calls, every child that a live node retains under the ownership rules is
\* in lookup (no dangling child), and no live node is reached from its own
\* children (no cycle).
C27_GraphClosed ==
    \A n \in DOMAIN lookup :
        /\ \A c \in ChildrenOf(Univ, n) : Live(Univ, c)
        /\ \A c \in ChildrenOf(Univ, n) : n \notin Owned(Univ, c)

\* the call returned r with an id that was not live: one delete of that id
\* gives back the lookup and blob_lookup of before the call and puts the
\* slot of the id on the free list of its sector
RestoredBy(r) ==
    /\ delete(r.U, r.id).err = "none"
    /\ delete(r.U, r.id).U.lookup = lookup
    /\ delete(r.U, r.id).U.blob_lookup = blob_lookup
    /\ IsFree(delete(r.U, r.id).U, get_op(r.id), r.U.lookup[r.id])

\* the id intern_blob gives to a byte string
blob_id(bytes) == compute_signature(OP_BLOB, <<>>, bytes)

\* C28: for a scalar or a blob that is not live, intern_val / intern_blob
\* followed by one delete of the id returned gives back lookup and
\* blob_lookup as they were and puts the slot on the free list of its
\* sector; and blob_lookup holds a byte string exactly when the blob of
\* that content is in lookup.
C28_ValueRoundTrip ==
    /\ \A value \in (-MaxNeg)..MaxVal :
          ~Live(Univ, compute_scalar_signature(value)) => RestoredBy(intern_val(Univ, value))
    /\ \A bytes \in 1..MaxNames :
          ~Live(Univ, blob_id(bytes)) => RestoredBy(intern_blob(Univ, bytes))
    /\ DOMAIN blob_lookup = {bytes \in 1..MaxNames : Live(Univ, blob_id(bytes))}

\* C28 witness: intern_blob on empty tables, then the delete of the blob,
\* left the tables empty again
C28_Witness ==
    /\ last.call = "delete"
    /\ get_op(last.id) = OP_BLOB
    /\ calls = 2
    /\ lookup = EmptyMap
    /\ blob_lookup = EmptyMap
    /\ IsFree(Univ, OP_BLOB, PageSize - 1)

\* largest number of explicit retains followed through
MaxRetains == 2

RECURSIVE retain_times(_, _, _)
\* the tables after k calls of retain(uid)
retain_times(U, uid, k) ==
    IF k = 0 THEN U ELSE retain_times(retain_node(U, uid), uid, k - 1)

RECURSIVE delete_times(_, _, _)
\* the tables after k calls of delete(uid)
delete_times(U, uid, k) ==
    IF k = 0 THEN U ELSE delete_times(delete(U, uid).U, uid, k - 1)

\* retain(uid) on the live id uid took the tables from U to V: the count of
\* the slot of uid is one higher and nothing else differs
RetainedOnce(U, V, uid) ==
    V = [U EXCEPT !.sectors[get_op(uid)].ref_counts[U.lookup[uid] + 1] = @ + 1]

\* C29: retain on a live id raises the ref count of its slot by one and
\* changes nothing else; retain on an id that is not in lookup changes
\* nothing.
C29_RetainFrame ==
    [][last'.call = "retain"
          => IF Live(Univ, last'.id) THEN RetainedOnce(Univ, Univ', last'.id)
             ELSE Univ' = Univ]_vars

\* C29, its consequence: a live node whose only reference is the one it was
\* allocated with is, after k explicit retains, still in lookup after k
\* deletes and reclaimed by the next delete; in general a node of count n
\* is reclaimed by the delete number n + k and by none before.
C29_RetainsOutliveDeletes ==
    \A uid \in DOMAIN lookup : \A k \in 0..MaxRetains :
        /\ \A j \in 0..(RefCount(Univ, uid) + k - 1) :
              Live(delete_times(retain_times(Univ, uid, k), uid, j), uid)
        /\ ~Live(delete_times(retain_times(Univ, uid, k), uid, RefCount(Univ, uid) + k), uid)

\* C29 witness: a scalar was interned, retained once and deleted once, and
\* is still in lookup with the count 1
C29_Witness ==
    /\ last.call = "delete"
    /\ calls = 3
    /\ deletes = 1
    /\ DOMAIN lookup = {last.id}
    /\ last.id \in DOMAIN uretain
    /\ RefCount(Univ, last.id) = 1

\* C29: retain on a live id raises its ref count by exactly one and changes
\* nothing else, so that a node with k explicit retains is still in lookup
\* after k deletes and is reclaimed by the delete number k + 1; retain on
\* an id that is not in lookup changes no state.
C29_Retain == C29_RetainFrame /\ []C29_RetainsOutliveDeletes

\* the slots of the pool p that hold one reference
LastReference(p) == {idx \in 0..(p.capacity - 1) : p.ref_counts[idx + 1] = 1}

\* release(idx) on the last reference of a slot of p: the slot is cleared
\* and its index pushed on the free list, and the alloc that follows gets
\* that index back with the count 1 and leaves the free list of p
ReleasedThenAllocated(p, idx) ==
    /\ pool_release(p, idx).dead
    /\ pool_release(p, idx).pool.data[idx + 1] = NoneData
    /\ pool_release(p, idx).pool.ref_counts[idx + 1] = 0
    /\ pool_release(p, idx).pool.free_list = Append(p.free_list, idx)
    /\ pool_alloc(pool_release(p, idx).pool, <<Raw(0)>>).idx = idx
    /\ pool_alloc(pool_release(p, idx).pool, <<Raw(0)>>).pool.ref_counts[idx + 1] = 1
    /\ pool_alloc(pool_release(p, idx).pool, <<Raw(0)>>).pool.free_list = p.free_list

\* release(i) then release(j), each on a last reference: the two allocs
\* that follow return j, then i
LastInFirstOut(p, i, j) ==
    /\ pool_alloc(pool_release(pool_release(p, i).pool, j).pool, <<Raw(0)>>).idx = j
    /\ pool_alloc(pool_alloc(pool_release(pool_release(p, i).pool, j).pool, <<Raw(0)>>).pool,
                  <<Raw(1)>>).idx = i

\* C30: on every pool of a reachable state, a release that brings a slot
\* to zero clears the slot and pushes its index on the free list, and the
\* allocs that follow, the free list never running empty in between, return
\* the released indices last released first, each with ref count 1; a
\* release that leaves a reference pushes nothing.
C30_FreeListLifo ==
    \A op_code \in DOMAIN sectors :
        /\ \A idx \in LastReference(sectors[op_code]) :
              ReleasedThenAllocated(sectors[op_code], idx)
        /\ \A i \in LastReference(sectors[op_code]) :
              \A j \in LastReference(sectors[op_code]) \ {i} :
                 LastInFirstOut(sectors[op_code], i, j)
        /\ \A idx \in 0..(sectors[op_code].capacity - 1) :
              sectors[op_code].ref_counts[idx + 1] > 1
                 => /\ ~pool_release(sectors[op_code], idx).dead
                    /\ pool_release(sectors[op_code], idx).pool.free_list
                          = sectors[op_code].free_list

\* C30 witness: a scalar was interned and deleted, its slot went back on a
\* free list that held another index, and the intern_val that followed was
\* given that slot again
C30_Witness ==
    /\ last.call = "intern_val"
    /\ last.fresh
    /\ calls = 3
    /\ deletes = 1
    /\ DOMAIN lookup = {last.id}
    /\ lookup[last.id] = PageSize - 1
    /\ DOMAIN sectors = {OP_SCALAR}
    /\ Len(sectors[OP_SCALAR].free_list) = PageSize - 1

-----------------------------------------------------------------------------
(* ds/list.py and ds/queue.py: the persistent list and the persistent      *)
(* queue.  A list or a queue is the id it wraps.                           *)

\* the byte string b"__NIL__" (the names of the symbols are 1..MaxNames)
NilName == 0

\* the tables after list.py was imported: _NIL_ID is interned
NilU == symbol_of(intern_blob(EmptyU, NilName))

\* _NIL_ID
NIL_ID == NilU.id

\* the item None
NoneItem == NullId

\* ConsList.is_empty
is_empty(uid) == uid = NIL_ID

\* ConsList.cons: [U, id, err]
list_cons(U, head, tail) == intern(U, OP_CONS, <<head, tail>>)

\* args[i] of what get_args returned, an IndexError past the end
ArgOf(a, i) ==
    IF a.err # "none" THEN [id |-> NullId, err |-> a.err]
    ELSE IF Len(a.args) < i THEN [id |-> NullId, err |-> "IndexError"]
    ELSE [id |-> a.args[i], err |-> "none"]

\* ConsList.head: [id, err]
list_head(U, uid) ==
    IF is_empty(uid) THEN [id |-> NullId, err |-> "IndexError"]
    ELSE ArgOf(get_args(U, uid), 1)

\* ConsList.tail: [id, err]
list_tail(U, uid) ==
    IF is_empty(uid) THEN [id |-> NullId, err |-> "IndexError"]
    ELSE ArgOf(get_args(U, uid), 2)

\* one turn of the loop of from_python: acc = cons(item, acc)
from_python_step(item, acc) ==
    IF acc.err # "none" THEN acc ELSE list_cons(acc.U, item, acc.id)

RECURSIVE from_python(_, _)
\* ConsList.from_python: the items are consed from the last to the first
from_python(U, items) ==
    IF items = <<>> THEN Ok(U, NIL_ID)
    ELSE from_python_step(Head(items), from_python(U, Tail(items)))

\* the item h is followed by the items r of the tail
items_after(h, r) ==
    IF h.err # "none" THEN [items |-> <<>>, err |-> h.err]
    ELSE IF r.err # "none" THEN r
    ELSE [items |-> <<h.id>> \o r.items, err |-> "none"]

RECURSIVE list_items(_, _)
\* ConsList.__iter__, as list(l): [items, err]
list_items(U, uid) ==
    IF is_empty(uid) THEN [items |-> <<>>, err |-> "none"]
    ELSE IF list_tail(U, uid).err # "none" THEN [items |-> <<>>, err |-> list_tail(U, uid).err]
    ELSE items_after(list_head(U, uid), list_items(U, list_tail(U, uid).id))

RECURSIVE Reverse(_)
\* list(reversed(items))
Reverse(s) == IF s = <<>> THEN <<>> ELSE Append(Reverse(Tail(s)), Head(s))

\* the intern that ends _make, f being what built the front
make_intern(f, rear) ==
    IF f.err # "none" THEN f ELSE intern(f.U, OP_QUEUE, <<f.id, rear>>)

\* faulty variant of flip_rear: the items of the rear become the front in
\* the order of the rear
flip_rear_unreversed(U, it) ==
    IF it.err # "none" THEN Fail(U, it.err)
    ELSE make_intern(from_python(U, it.items), NIL_ID)

\* the flip of _make: the items of the rear, reversed, become the front
flip_rear(U, it) ==
    IF it.err # "none" THEN Fail(U, it.err)
    ELSE make_intern(from_python(U, Reverse(it.items)), NIL_ID)

\* ImmutableQueue._make: [U, id, err]
queue_make(U, front, rear) ==
    IF is_empty(front) /\ ~is_empty(rear) THEN flip_rear(U, list_items(U, rear))
    ELSE intern(U, OP_QUEUE, <<front, rear>>)

\* ImmutableQueue.empty
queue_empty(U) == intern(U, OP_QUEUE, <<NIL_ID, NIL_ID>>)

\* _make(front, new_rear), c being what cons(item, rear) returned
enqueue_make(c, front) ==
    IF c.err # "none" THEN c ELSE queue_make(c.U, front.id, c.id)

\* ImmutableQueue.enqueue: [U, id, err]
enqueue(U, uid, item) ==
    IF ArgOf(get_args(U, uid), 2).err # "none" THEN Fail(U, ArgOf(get_args(U, uid), 2).err)
    ELSE enqueue_make(list_cons(U, item, ArgOf(get_args(U, uid), 2).id),
                      ArgOf(get_args(U, uid), 1))

\* what dequeue returns once front.head and _make(front.tail, rear) are known
dequeue_result(U, h, m) ==
    IF h.err # "none" THEN [U |-> U, head |-> NoneItem, id |-> NullId, err |-> h.err]
    ELSE [U |-> m.U, head |-> h.id, id |-> m.id, err |-> m.err]

\* the body of dequeue, front and rear being what _unpack returned
dequeue_from(U, uid, front, rear) ==
    IF rear.err # "none" THEN [U |-> U, head |-> NoneItem, id |-> NullId, err |-> rear.err]
    ELSE IF is_empty(front.id) THEN [U |-> U, head |-> NoneItem, id |-> uid, err |-> "none"]
    ELSE IF list_tail(U, front.id).err # "none"
    THEN [U |-> U, head |-> NoneItem, id |-> NullId, err |-> list_tail(U, front.id).err]
    ELSE dequeue_result(U, list_head(U, front.id),
                        queue_make(U, list_tail(U, front.id).id, rear.id))

\* ImmutableQueue.dequeue: [U, head, id, err]; head is NoneItem and id the
\* queue itself when the queue is empty
dequeue(U, uid) ==
    dequeue_from(U, uid, ArgOf(get_args(U, uid), 1), ArgOf(get_args(U, uid), 2))

-----------------------------------------------------------------------------
(* Runs of the list and of the queue: lists are consed from the items, and *)
(* queues are built from ImmutableQueue.empty by enqueue and dequeue on    *)
(* the versions built so far; each version is recorded with the items its  *)
(* history defines, oldest first.                                          *)

\* the items are the scalars 0..MaxItem
MaxItem == 1

\* calls of a run
MaxQueueCalls == 5

Items == {compute_scalar_signature(v) : v \in 0..MaxItem}

\* the lists of the tables: nil and the live cons nodes
Lists == {NIL_ID} \cup {n \in DOMAIN lookup : get_op(n) = OP_CONS}

\* the variables the runs of the list and of the queue leave alone
queueIdle == <<uretain, deletes, hmaps, hhash, pc, job, loc, lock, pool_locks, done>>

QInit ==
    /\ LET U == intern_vals(NilU.U, 0, MaxItem)
       IN /\ lookup = U.lookup
          /\ blob_lookup = U.blob_lookup
          /\ sectors = U.sectors
    /\ queues = {}
    /\ last = NoCall
    /\ calls = 0
    /\ uretain = EmptyMap
    /\ deletes = 0
    /\ hmaps = <<>>
    /\ hhash = EmptyMap
    /\ pc = EmptyMap
    /\ job = EmptyMap
    /\ loc = EmptyMap
    /\ lock = [owner |-> 0, depth |-> 0]
    /\ pool_locks = <<>>
    /\ done = <<>>

\* a queue version is recorded when the call returned
AddQueue(uid, err, items) ==
    queues' = IF err = "none" THEN queues \cup {[uid |-> uid, items |-> items]} ELSE queues

\* ConsList.cons(head, tail)
ListCons(head, tail) ==
    /\ calls < MaxQueueCalls
    /\ Record("cons", OP_CONS, <<head, tail>>, list_cons(Univ, head, tail))
    /\ UNCHANGED <<queues, queueIdle>>

\* ImmutableQueue.empty()
QueueEmpty ==
    /\ calls < MaxQueueCalls
    /\ AddQueue(queue_empty(Univ).id, queue_empty(Univ).err, <<>>)
    /\ Record("empty", OP_QUEUE, <<>>, queue_empty(Univ))
    /\ UNCHANGED queueIdle

\* q.enqueue(item) on the version q
Enqueue(q, item) ==
    /\ calls < MaxQueueCalls
    /\ AddQueue(enqueue(Univ, q.uid, item).id, enqueue(Univ, q.uid, item).err,
                Append(q.items, item))
    /\ Record("enqueue", OP_QUEUE, <<q.uid, item>>, enqueue(Univ, q.uid, item))
    /\ UNCHANGED queueIdle

\* the result of dequeue as a call record: the id is the item returned
dequeue_record(d) == [U |-> d.U, id |-> d.head, err |-> d.err]

\* q.dequeue() on the version q
Dequeue(q) ==
    /\ calls < MaxQueueCalls
    /\ AddQueue(dequeue(Univ, q.uid).id, dequeue(Univ, q.uid).err,
                IF q.items = <<>> THEN <<>> ELSE Tail(q.items))
    /\ Record("dequeue", OP_QUEUE, <<q.uid>>, dequeue_record(dequeue(Univ, q.uid)))
    /\ UNCHANGED queueIdle

QNext ==
    \/ \E head \in Items \cup Lists : \E tail \in Lists : ListCons(head, tail)
    \/ QueueEmpty
    \/ \E q \in queues : \E item \in Items : Enqueue(q, item)
    \/ \E q \in queues : Dequeue(q)

QueueSpec == QInit /\ [][QNext]_vars

\* C31: cons(x, L) is a list whose head is x and whose tail has the id of
\* L, and the list L is left as it was: the same slot, the same args, the
\* same items.
C31_ConsSharesTail ==
    [][(last'.call = "cons" /\ last'.err = "none")
          => /\ list_head(Univ', last'.id) = [id |-> last'.args[1], err |-> "none"]
             /\ list_tail(Univ', last'.id) = [id |-> last'.args[2], err |-> "none"]
             /\ lookup'[last'.args[2]] = lookup[last'.args[2]]
             /\ SlotData(Univ', last'.args[2]) = SlotData(Univ, last'.args[2])
             /\ list_items(Univ', last'.args[2]) = list_items(Univ, last'.args[2])]_vars

\* C31 witness: an item was consed on a list that is not empty, which made
\* a new node
C31_Witness ==
    /\ last.call = "cons"
    /\ last.err = "none"
    /\ last.fresh
    /\ get_op(last.args[2]) = OP_CONS
    /\ list_items(Univ, last.id).items = <<last.args[1]>> \o list_items(Univ, last.args[2]).items

RECURSIVE drain(_, _)
\* the items a queue yields from d on, d being what its dequeue returned
drain_from(d) ==
    IF d.err # "none" \/ d.head = NoneItem THEN <<>>
    ELSE <<d.head>> \o drain(d.U, d.id)

\* the items a queue yields when it is dequeued until it is empty
drain(U, uid) == drain_from(dequeue(U, uid))

\* C32: every queue version built from the empty queue by enqueue and
\* dequeue yields, dequeued to the end, the items enqueued and not yet
\* dequeued in its history, oldest first, whatever was done to it or built
\* from it since; a dequeue returned the oldest item of the version it was
\* applied to, and on an empty version it returned None and the same queue.
C32_QueueFifo ==
    /\ \A q \in queues :
          /\ drain(Univ, q.uid) = q.items
          /\ q.items = <<>>
                => /\ dequeue(Univ, q.uid).head = NoneItem
                   /\ dequeue(Univ, q.uid).id = q.uid
                   /\ dequeue(Univ, q.uid).U = Univ
          /\ q.items # <<>>
                => /\ dequeue(Univ, q.uid).err = "none"
                   /\ dequeue(Univ, q.uid).head = Head(q.items)
    /\ last.call = "dequeue"
          => /\ last.err = "none"
             /\ \E q \in queues :
                   /\ q.uid = last.args[1]
                   /\ last.id = IF q.items = <<>> THEN NoneItem ELSE Head(q.items)

\* C32 witness: a dequeue emptied the front of a version whose rear held
\* two items, so that the rear was flipped, and returned the oldest item;
\* the version it left has the two items of the rear in its front
C32_Witness ==
    /\ last.call = "dequeue"
    /\ last.id # NoneItem
    /\ \E q \in queues : \E r \in queues :
          /\ q.uid = last.args[1]
          /\ Len(q.items) = 3
          /\ r.items = Tail(q.items)
          /\ r.items[1] # r.items[2]
          /\ Len(list_items(Univ, get_args(Univ, q.uid).args[2]).items) = 2
          /\ r.uid = dequeue(Univ, q.uid).id
          /\ list_items(Univ, get_args(Univ, r.uid).args[1]).items = r.items

\* C33: an id that from_map returns has the operator HAMT: for the empty
\* dict it is the HAMT node of bitmap 0 with no child, for a dict of one
\* entry it is the HAMT node whose bitmap has the one bit (h & 0x1F) of the
\* projection h of the key and whose one child is the KV leaf of the
\* entry, and for a larger dict it is a HAMT root; never a bare KV leaf.
C33_FromMapRootIsHamt ==
    (last.call = "from_map" /\ last.err = "none")
        => /\ Live(Univ, last.id)
           /\ get_op(last.id) = OP_HAMT
           /\ Len(last.args) = 0 => SlotData(Univ, last.id) = <<Raw(0)>>
           /\ Len(last.args) = 1
                 => SlotData(Univ, last.id)
                       = <<Raw(Pow2(BitIndex(holographic_hash(last.args[1][1]), 0))),
                           batch_id(OP_KV, last.args[1])>>
           /\ Len(last.args) > 1 => get_op(SlotData(Univ, last.id)[1]) = 0

\* C33 witness: from_map was given one entry whose key has a projection
\* with the low bits 1, and returned the HAMT node of bitmap 2 over the
\* leaf
C33_Witness ==
    /\ last.call = "from_map"
    /\ last.err = "none"
    /\ Len(last.args) = 1
    /\ get_op(last.id) = OP_HAMT
    /\ SlotData(Univ, last.id)[1] = Raw(2)
    /\ get_op(SlotData(Univ, last.id)[2]) = OP_KV

-----------------------------------------------------------------------------
(* hashing/encoder.py, lines 96-123: the id of a scalar payload of any     *)
(* supported type.  A payload is [type, val]: an integer, a float of       *)
(* value 0.0 or 1.0 (val is <<0>> or <<1>>; an integer v is <<v>>), a      *)
(* string or a byte string of ASCII characters (val is the sequence of the *)
(* codes).  The digest is taken to                                         *)
(* be collision-free: it stands for the bytes it was fed; the structural   *)
(* lane stands for val_hash.                                               *)

RECURSIVE bit_length(_)
\* int.bit_length of a magnitude
bit_length(n) == IF n = 0 THEN 0 ELSE 1 + bit_length(n \div 2)

RECURSIVE to_bytes(_, _)
\* n.to_bytes(l, 'little', signed=True): \div rounds down and % is never
\* negative, which gives the digits of the two's complement
to_bytes(n, l) == IF l = 0 THEN <<>> ELSE <<n % 256>> \o to_bytes(n \div 256, l - 1)

\* val.to_bytes(l or 1, 'little', signed=True), l = (val.bit_length() + 8) // 8
int_bytes(val) == to_bytes(val, (bit_length(IF val < 0 THEN -val ELSE val) + 8) \div 8)

\* struct.pack('<d', val) for 0.0 and 1.0
float_bytes(val) ==
    IF val = 0 THEN <<0, 0, 0, 0, 0, 0, 0, 0>> ELSE <<0, 0, 0, 0, 0, 0, 240, 63>>

\* val[:8].ljust(8, b'\0')
ljust8(b) == [i \in 1..8 |-> IF i <= Len(b) THEN b[i] ELSE 0]

\* the bytes fed to the digest after the operator
scalar_bytes(p) ==
    CASE p.type = "int"   -> int_bytes(p.val[1])
      [] p.type = "float" -> float_bytes(p.val[1])
      [] OTHER            -> p.val

\* val_hash, a number of 64 bits, as its eight bytes, the lowest first
\* (val & MASK_64 is the two's complement of val).  hash(val) of a float of
\* integer value is that value; hash of the empty string is 0, and the hash
\* of another string, which is drawn for each process, is taken to differ
\* from every other val_hash
scalar_val_hash(p) ==
    CASE p.type = "int"   -> [drawn |-> FALSE, v |-> to_bytes(p.val[1], 8)]
      [] p.type = "float" -> [drawn |-> FALSE, v |-> to_bytes(p.val[1], 8)]
      [] p.type = "str"   -> IF p.val = <<>> THEN [drawn |-> FALSE, v |-> to_bytes(0, 8)]
                             ELSE [drawn |-> TRUE, v |-> p.val]
      [] OTHER            -> [drawn |-> FALSE, v |-> ljust8(p.val)]

\* compute_scalar_signature on a payload of any type
scalar_signature(p) ==
    compute_signature(OP_SCALAR, <<>>, [bytes |-> scalar_bytes(p), val_hash |-> scalar_val_hash(p)])

\* Universe.intern_val on a payload of any type
intern_payload(U, p) ==
    IF Live(U, scalar_signature(p)) THEN Ok(U, scalar_signature(p))
    ELSE Ok(Materialize(U, scalar_signature(p), <<Raw(p)>>), scalar_signature(p))

\* the payloads offered to intern_val
Payloads ==
    {[type |-> "int", val |-> <<v>>] : v \in {0, 97, -1}}
        \cup {[type |-> "float", val |-> <<v>>] : v \in {0, 1}}
        \cup {[type |-> "str", val |-> s] : s \in {<<>>, <<97>>}}
        \cup {[type |-> "bytes", val |-> s] : s \in {<<>>, <<0>>, <<97>>, <<0, 0, 0, 0, 0, 0, 0, 0>>}}

\* Universe.intern_val(value) on a payload of any type
InternPayload(p) ==
    /\ calls < MaxCalls
    /\ Record("intern_val", OP_SCALAR, <<Raw(p)>>, intern_payload(Univ, p))
    /\ UNCHANGED <<uretain, deletes, otherVars>>

PNext == \E p \in Payloads : InternPayload(p)

PayloadSpec == Init /\ [][PNext]_vars

\* the payloads held by the scalars in lookup
StoredPayloads == {SlotData(Univ, uid)[1].pl : uid \in DOMAIN lookup}

\* C34: two scalar payloads that differ in value or in type have different
\* ids, and so intern_val on a payload that no scalar in lookup holds
\* returns an id that was not in lookup: n distinct scalars give n ids.
C34_InternValInjective ==
    last.call = "intern_val"
        => /\ Cardinality(DOMAIN lookup) = Cardinality(StoredPayloads \cup {last.args[1].pl})
           /\ \A q \in Payloads \ {last.args[1].pl} : scalar_signature(q) # last.id

-----------------------------------------------------------------------------
\* the slots of a sector that hold a node: those with a reference
ActiveSlots(op_code) ==
    {idx \in 0..(sectors[op_code].capacity - 1) : sectors[op_code].ref_counts[idx + 1] > 0}

\* the ids of an operator that are in lookup
Rows(op_code) == {uid \in DOMAIN lookup : get_op(uid) = op_code}

\* C35: in every state every sector has as many active slots as lookup has
\* rows of its operator, the pool's active_count is that number, and no two
\* rows point to the same slot.
C35_OneSlotPerId ==
    \A op_code \in DOMAIN sectors :
        /\ Cardinality(ActiveSlots(op_code)) = Cardinality(Rows(op_code))
        /\ sectors[op_code].active_count = Cardinality(Rows(op_code))
        /\ \A u \in Rows(op_code) : \A v \in Rows(op_code) : lookup[u] = lookup[v] => u = v

-----------------------------------------------------------------------------
\* the args tuples offered to intern and to intern_batch alike
AgreeShapes(op_code) ==
    IF op_code = OP_SCALAR THEN {<<Raw(v)>> : v \in 0..MaxVal}
    ELSE IF op_code = OP_DUAL THEN TuplesOf(DOMAIN lookup, 1)
    ELSE TuplesOf(DOMAIN lookup, 2)

\* C36: intern_batch(op, [args]) returns the id that intern(op, args)
\* returns from the same tables, for scalars (where intern gives the id of
\* intern_val), commutative operators and operators with rewrite rules.
C36_BatchAgreesWithIntern ==
    \A op_code \in {OP_SCALAR, OP_ADD, OP_MUL, OP_DUAL, OP_CONS} :
        \A args \in AgreeShapes(op_code) :
            intern(Univ, op_code, args).err = "none"
                => /\ intern_batch(Univ, op_code, <<args>>).err = "none"
                   /\ intern_batch(Univ, op_code, <<args>>).ids = <<intern(Univ, op_code, args).id>>

-----------------------------------------------------------------------------
(* memory/allocator.py: one MemoryPool driven through its own interface.   *)
(* The pool is the sector of PoolKey.                                      *)

RECURSIVE release_batch_loop(_, _, _)
\* the loop of MemoryPool.release_batch
release_batch_loop(p, indices, dead_indices) ==
    IF indices = <<>> THEN [pool |-> p, dead_indices |-> dead_indices]
    ELSE release_batch_loop(pool_release(p, Head(indices)).pool, Tail(indices),
                            IF pool_release(p, Head(indices)).dead
                            THEN Append(dead_indices, Head(indices)) ELSE dead_indices)

\* MemoryPool.release_batch: [pool, dead_indices]
pool_release_batch(p, indices) == release_batch_loop(p, indices, <<>>)

PoolKey == OP_CONS

\* calls on the pool in one run
MaxPoolCalls == 5

\* the capacity past which nothing more is allocated
MaxCapacity == 4

\* the pool
ThePool == sectors[PoolKey]

\* the indices below the capacity
Indices == 0..(ThePool.capacity - 1)

\* the args every allocation stores
PoolArgs == <<Raw(1)>>

PoolInit ==
    /\ lookup = EmptyMap
    /\ blob_lookup = EmptyMap
    /\ sectors = (PoolKey :> NewPool(PageSize))
    /\ last = NoCall
    /\ calls = 0
    /\ uretain = EmptyMap
    /\ deletes = 0
    /\ OtherIdle

\* a call on the pool has returned
PoolCall(call, args, p) ==
    /\ calls < MaxPoolCalls
    /\ p.capacity <= MaxCapacity
    /\ sectors' = (PoolKey :> p)
    /\ last' = [call |-> call, op |-> PoolKey, args |-> args, id |-> NullId,
                err |-> "none", fresh |-> FALSE]
    /\ calls' = calls + 1
    /\ UNCHANGED <<lookup, blob_lookup, uretain, deletes, otherVars>>

\* MemoryPool.alloc(args)
PoolAlloc == PoolCall("alloc", <<>>, pool_alloc(ThePool, PoolArgs).pool)

\* MemoryPool.alloc_batch(batch_args)
PoolAllocBatch(count) ==
    /\ pool_alloc_batch(ThePool, Repeat(PoolArgs, count)).err = "none"
    /\ PoolCall("alloc_batch", <<count>>, pool_alloc_batch(ThePool, Repeat(PoolArgs, count)).pool)

\* MemoryPool.retain(idx)
PoolRetain(idx) == PoolCall("retain", <<idx>>, pool_retain(ThePool, idx))

\* MemoryPool.release(idx)
PoolRelease(idx) == PoolCall("release", <<idx>>, pool_release(ThePool, idx).pool)

\* MemoryPool.release_batch(indices)
PoolReleaseBatch(indices) ==
    PoolCall("release_batch", indices, pool_release_batch(ThePool, indices).pool)

PoolNext ==
    \/ PoolAlloc
    \/ \E count \in 0..MaxBatch : PoolAllocBatch(count)
    \/ \E idx \in Indices : PoolRetain(idx)
    \/ \E idx \in Indices : PoolRelease(idx)
    \/ \E indices \in TuplesOf(Indices, 2) : PoolReleaseBatch(indices)

PoolSpec == PoolInit /\ [][PoolNext]_vars

\* idx is on the free list
OnFreeList(p, idx) == \E i \in 1..Len(p.free_list) : p.free_list[i] = idx

\* C37: after any sequence of alloc, alloc_batch, retain, release and
\* release_batch with indices below the capacity, active_count plus the
\* length of the free list is the capacity, no index is on the free list
\* twice, and an index is on the free list exactly when its ref count is 0
\* and its data is cleared.
C37_PoolAccounting ==
    /\ ThePool.active_count + Len(ThePool.free_list) = ThePool.capacity
    /\ \A i \in 1..Len(ThePool.free_list) : \A j \in 1..Len(ThePool.free_list) :
           ThePool.free_list[i] = ThePool.free_list[j] => i = j
    /\ \A idx \in Indices :
           OnFreeList(ThePool, idx)
               <=> (ThePool.ref_counts[idx + 1] = 0 /\ ThePool.data[idx + 1] = NoneData)

-----------------------------------------------------------------------------
\* the items of the dict m as from_map is given them
ItemsOf(m) == CHOOSE items \in HItems : DictOf(items) = m

\* C38: the root of a map is canonical: every version built from
\* HAMT.empty() by puts, in whatever order and with whatever overwriting,
\* has the root id that from_map gives for the dict the version holds.
\* (each version is checked when the put that builds it returns.)
C38_RootIsCanonical ==
    (last.call = "put" /\ last.err = "none")
        => LET r == from_map(Univ, ItemsOf(hmaps[Len(hmaps)].m))
           IN /\ r.err = "none"
              /\ last.id = r.id
              /\ hmaps[Len(hmaps)].root = r.id

\* a map of two keys that part at the second level only, built by putting
\* the key of the higher id first
C38_Witness ==
    /\ last.call = "put"
    /\ last.err = "none"
    /\ Len(hmaps) = 3
    /\ hmaps[1].m = EmptyMap
    /\ last.args[1] = hmaps[2].root
    /\ \E k \in DOMAIN hmaps[2].m :
           /\ DOMAIN hmaps[2].m = {k}
           /\ DOMAIN hmaps[3].m = {k, last.args[2]}
           /\ IdLess(last.args[2], k)
           /\ hhash[k][1] = hhash[last.args[2]][1]
           /\ hhash[k] # hhash[last.args[2]]
    /\ last.id = from_map(Univ, ItemsOf(hmaps[3].m)).id

-----------------------------------------------------------------------------
\* max of a set of naturals
SetMax(S) == CHOOSE x \in S : \A y \in S : y <= x

RECURSIVE trie_depth(_, _)
\* the levels of HAMT nodes from uid down to its deepest leaf
trie_depth(U, uid) ==
    IF get_op(uid) # OP_HAMT THEN 0
    ELSE 1 + SetMax({trie_depth(U, c) : c \in SeqToSet(Tail(SlotData(U, uid)))} \cup {0})

\* C39: from_map and put return for every set of distinct key ids, whatever
\* the projections of the keys, and the trie they return is at most
\* HashChunks (13) levels deep.
C39_MapCallsTerminate ==
    last.call \in {"from_map", "put"}
        => /\ last.err = "none"
           /\ trie_depth(Univ, last.id) <= HashChunks

-----------------------------------------------------------------------------
(* kernel/universe.py and memory/allocator.py: the locks.  Every call of   *)
(* the interface is the sequence of acquisitions and releases it makes, in *)
(* the order of its code; what the tables decide (a hit or a miss, the     *)
(* children of a node, whether a release was the last one) is taken either *)
(* way.  pc[t] is "idle" or "run", job[t] the call and loc[t] the steps    *)
(* thread t still has to make.                                             *)

\* the name of Universe._lock among the locks; a pool lock has the name of
\* its sector
UniverseLock == 0

\* the sectors whose pools the calls use
LockSectors == {OP_SCALAR, OP_CONS}

\* calls started in one run
MaxLockCalls == 3

\* children a node retains, or a delete goes on to
MaxChildren == 2

Acq(l) == [a |-> "acquire", l |-> l]

Rel(l) == [a |-> "release", l |-> l]

\* a method of MemoryPool: with self._lock around its whole body, which
\* calls nothing outside the pool
pool_call(s) == <<Acq(s), Rel(s)>>

\* with cls._lock around body
with_universe_lock(body) == <<Acq(UniverseLock)>> \o body \o <<Rel(UniverseLock)>>

\* _retain_node on each child in turn
retain_children(children) == Concat([i \in 1..Len(children) |-> pool_call(children[i])])

\* intern lines 74-104: under the lock, the children are retained and the
\* node allocated; a hit of the re-check returns at once
intern_program(hit, s, children) ==
    with_universe_lock(IF hit THEN <<>> ELSE retain_children(children) \o pool_call(s))

\* intern_batch lines 140-172: under the lock, alloc_batch, then the retains
intern_batch_program(hit, s, children) ==
    with_universe_lock(IF hit THEN <<>> ELSE pool_call(s) \o retain_children(children))

\* intern_val lines 251-256
intern_val_program(hit) ==
    with_universe_lock(IF hit THEN <<>> ELSE pool_call(OP_SCALAR))

\* intern_blob lines 270-276
intern_blob_program(hit) ==
    with_universe_lock(IF hit THEN <<>> ELSE pool_call(OP_BLOB))

\* retain, lines 315-324
retain_program(s) == pool_call(s)

\* faulty variant of release_unpublish: the id is unpublished inside the
\* lock of the pool
release_unpublish_nested(s) ==
    <<Acq(s), Acq(UniverseLock), Rel(UniverseLock), Rel(s)>>

\* delete lines 289-296 when the release was the last one: pool.release,
\* then the id is unpublished under the lock
release_unpublish(s) == pool_call(s) \o with_universe_lock(<<>>)

\* delete of a node whose children are childless: pool.release, and when
\* the node died the unpublication and the delete of each child, which
\* releases it and, if it died, unpublishes it
delete_program(s, dead, children) ==
    IF ~dead THEN pool_call(s)
    ELSE release_unpublish(s)
            \o Concat([i \in 1..Len(children) |->
                          IF children[i].dead THEN release_unpublish(children[i].s)
                          ELSE pool_call(children[i].s)])

\* the children of a node, by their sectors
ChildSectors == UNION {[1..n -> LockSectors] : n \in 0..MaxChildren}

\* the children a delete goes on to, each with whether it dies
DeleteChildren ==
    UNION {[1..n -> [s : LockSectors, dead : BOOLEAN]] : n \in 0..MaxChildren}

LInit ==
    /\ lookup = EmptyMap
    /\ blob_lookup = EmptyMap
    /\ sectors = EmptyMap
    /\ last = NoCall
    /\ calls = 0
    /\ uretain = EmptyMap
    /\ deletes = 0
    /\ hmaps = <<>>
    /\ hhash = EmptyMap
    /\ queues = <<>>
    /\ pc = [t \in Threads |-> "idle"]
    /\ job = [t \in Threads |-> "none"]
    /\ loc = [t \in Threads |-> <<>>]
    /\ lock = [owner |-> 0, depth |-> 0]
    /\ pool_locks = [s \in LockSectors \cup {OP_BLOB} |-> [owner |-> 0, depth |-> 0]]
    /\ done = <<>>

lockIdle == <<lookup, blob_lookup, sectors, last, uretain, deletes, hmaps, hhash, queues, done>>

\* thread t calls the interface; the optimistic probe of the call missed
Call(t, call, program) ==
    /\ pc[t] = "idle"
    /\ calls < MaxLockCalls
    /\ pc' = [pc EXCEPT ![t] = "run"]
    /\ job' = [job EXCEPT ![t] = call]
    /\ loc' = [loc EXCEPT ![t] = program]
    /\ calls' = calls + 1
    /\ UNCHANGED <<lock, pool_locks, lockIdle>>

CallIntern(t, hit, s, children) == Call(t, "intern", intern_program(hit, s, children))

CallInternBatch(t, hit, s, children) ==
    Call(t, "intern_batch", intern_batch_program(hit, s, children))

CallInternVal(t, hit) == Call(t, "intern_val", intern_val_program(hit))

CallInternBlob(t, hit) == Call(t, "intern_blob", intern_blob_program(hit))

CallRetain(t, s) == Call(t, "retain", retain_program(s))

CallDelete(t, s, dead, children) == Call(t, "delete", delete_program(s, dead, children))

\* the next step of thread t is the step st
NextStep(t, st) == pc[t] = "run" /\ loc[t] # <<>> /\ Head(loc[t]) = st

\* the step was made
Stepped(t) ==
    /\ loc' = [loc EXCEPT ![t] = Tail(loc[t])]
    /\ UNCHANGED <<pc, job, calls, lockIdle>>

\* thread t enters with cls._lock, once the lock is free or its own
AcquireUniverse(t) ==
    /\ NextStep(t, Acq(UniverseLock))
    /\ Acquire(t)
    /\ Stepped(t)
    /\ UNCHANGED pool_locks

\* thread t leaves with cls._lock
ReleaseUniverse(t) ==
    /\ NextStep(t, Rel(UniverseLock))
    /\ Release(t)
    /\ Stepped(t)
    /\ UNCHANGED pool_locks

\* thread t enters with self._lock of the pool of sector s
AcquirePool(t, s) ==
    /\ NextStep(t, Acq(s))
    /\ pool_locks[s].owner \in {0, t}
    /\ pool_locks' = [pool_locks EXCEPT ![s] = [owner |-> t, depth |-> @.depth + 1]]
    /\ Stepped(t)
    /\ UNCHANGED lock

\* thread t leaves with self._lock of the pool of sector s
ReleasePool(t, s) ==
    /\ NextStep(t, Rel(s))
    /\ pool_locks' = [pool_locks EXCEPT ![s] = IF @.depth = 1 THEN [owner |-> 0, depth |-> 0]
                                                ELSE [owner |-> t, depth |-> @.depth - 1]]
    /\ Stepped(t)
    /\ UNCHANGED lock

\* the call of thread t returns
CallReturns(t) ==
    /\ pc[t] = "run"
    /\ loc[t] = <<>>
    /\ pc' = [pc EXCEPT ![t] = "idle"]
    /\ job' = [job EXCEPT ![t] = "none"]
    /\ UNCHANGED <<loc, calls, lock, pool_locks, lockIdle>>

\* a step of a call of thread t that is under way
Proceed(t) ==
    \/ AcquireUniverse(t)
    \/ ReleaseUniverse(t)
    \/ \E s \in LockSectors \cup {OP_BLOB} : AcquirePool(t, s)
    \/ \E s \in LockSectors \cup {OP_BLOB} : ReleasePool(t, s)
    \/ CallReturns(t)

LNext ==
    \E t \in Threads :
        \/ \E hit \in BOOLEAN : \E s \in LockSectors : \E children \in ChildSectors :
              CallIntern(t, hit, s, children)
        \/ \E hit \in BOOLEAN : \E s \in LockSectors : \E children \in ChildSectors :
              CallInternBatch(t, hit, s, children)
        \/ \E hit \in BOOLEAN : CallInternVal(t, hit)
        \/ \E hit \in BOOLEAN : CallInternBlob(t, hit)
        \/ \E s \in LockSectors : CallRetain(t, s)
        \/ \E s \in LockSectors : \E dead \in BOOLEAN : \E children \in DeleteChildren :
              CallDelete(t, s, dead, children)
        \/ AcquireUniverse(t)
        \/ ReleaseUniverse(t)
        \/ \E s \in LockSectors \cup {OP_BLOB} : AcquirePool(t, s)
        \/ \E s \in LockSectors \cup {OP_BLOB} : ReleasePool(t, s)
        \/ CallReturns(t)

LockSpec == LInit /\ [][LNext]_vars

\* the scheduler runs every thread that can make a step
FairLockSpec == LockSpec /\ \A t \in Threads : WF_vars(Proceed(t))

\* the pool locks thread t holds
PoolsHeld(t) == {s \in DOMAIN pool_locks : pool_locks[s].owner = t}

\* the locks are taken in one order: a thread about to take Universe._lock
\* holds no pool lock, and no thread holds two pool locks
LockOrder ==
    \A t \in Threads :
        /\ NextStep(t, Acq(UniverseLock)) => PoolsHeld(t) = {}
        /\ Cardinality(PoolsHeld(t)) <= 1
        /\ pc[t] = "idle" => (PoolsHeld(t) = {} /\ lock.owner # t)

\* C40: under any interleaving of intern, intern_batch, intern_val,
\* intern_blob, retain and delete by the threads, with a scheduler that
\* runs every thread able to step, every call that was started returns,
\* and Universe._lock and the pool locks are never taken in conflicting
\* orders.
C40_NoDeadlock ==
    /\ \A t \in Threads : (pc[t] = "run") ~> (pc[t] = "idle")
    /\ []LockOrder

\* thread 1 holds Universe._lock in intern and waits for the lock of a pool
\* that thread 2 holds in a delete that goes on to take Universe._lock
C40_Witness ==
    /\ job[1] = "intern"
    /\ job[2] = "delete"
    /\ lock.owner = 1
    /\ \E s \in LockSectors :
           /\ NextStep(1, Acq(s))
           /\ pool_locks[s].owner = 2
           /\ Len(loc[2]) >= 2
           /\ loc[2][2] = Acq(UniverseLock)

====
